---- MODULE Spec2Model ----
(***************************************************************************)
(* Model of the arazzo-ai runtime: the expression evaluator                *)
(* (arazzo_ai/evaluate.py), the criterion evaluator                        *)
(* (arazzo_ai/condition.py), the workflow runner (arazzo_ai/runner.py)     *)
(* and the server commands of the CLI (arazzo_ai/cli.py).                  *)
(*                                                                         *)
(* Python strings are sequences of one-character strings, so that split,   *)
(* strip, startswith and the regular expressions of the source are         *)
(* computed character by character.  JSON data are tagged records:         *)
(*   Null, B(b), I(n), F(num, den), S(chars), L(<<items>>),                *)
(*   D(<< <<key, value>> ... >>)                                           *)
(* a dict being the sequence of its items in insertion order.  A raised    *)
(* exception is the record Raise(type).                                    *)
(***************************************************************************)
EXTENDS Integers, Sequences, FiniteSets, TLC

VARIABLES
    context,    \* self.context of the evaluator under test; for the CLI,
                \* the pid file and the servers spawned
    pending,    \* the call being made: function, arguments, and how the
                \* argument string was put together (shape)
    result      \* what the call returned or raised; NoResult before it ran

vars == <<context, pending, result>>

----------------------------------------------------------------------------
(* Data *)

Null == [k |-> "null"]
B(b) == [k |-> "bool", b |-> b]
I(n) == [k |-> "int", n |-> n]
S(s) == [k |-> "str", s |-> s]
\* a float literal: num / den, den a power of ten
F(num, den) == [k |-> "float", num |-> num, den |-> den]
L(items) == [k |-> "list", items |-> items]
D(pairs) == [k |-> "dict", pairs |-> pairs]
Raise(exc) == [k |-> "raise", exc |-> exc]
NoResult == [k |-> "pending"]

IsRaise(v) == v.k = "raise"

\* key in d (d a dict)
HasKey(d, key) == \E i \in 1..Len(d.pairs) : d.pairs[i][1] = key

\* d[key] for a key that is present
GetItem(d, key) ==
    LET i == CHOOSE j \in 1..Len(d.pairs) : d.pairs[j][1] = key
    IN  d.pairs[i][2]

\* d.get(key)
DictGet(d, key) == IF HasKey(d, key) THEN GetItem(d, key) ELSE Null

----------------------------------------------------------------------------
(* Strings *)

Digits == <<"0", "1", "2", "3", "4", "5", "6", "7", "8", "9">>

IsDigit(c) == \E i \in 1..10 : Digits[i] = c

DigitVal(c) == (CHOOSE i \in 1..10 : Digits[i] = c) - 1

\* c in s, for a one-character c
Contains(s, c) == \E i \in 1..Len(s) : s[i] = c

\* s.startswith(p)
StartsWith(s, p) == Len(s) >= Len(p) /\ SubSeq(s, 1, Len(p)) = p

\* s.endswith(p)
EndsWith(s, p) == Len(s) >= Len(p) /\ SubSeq(s, Len(s) - Len(p) + 1, Len(s)) = p

\* p occurs in s at position i
MatchAt(s, p, i) == i >= 1 /\ i + Len(p) - 1 <= Len(s) /\ SubSeq(s, i, i + Len(p) - 1) = p

\* s.split(sep) for a one-character sep: always at least one part
RECURSIVE Split(_, _)
Split(s, sep) ==
    IF ~Contains(s, sep) THEN <<s>>
    ELSE LET i == CHOOSE j \in 1..Len(s) :
                      s[j] = sep /\ \A h \in 1..(j - 1) : s[h] # sep
         IN  <<SubSeq(s, 1, i - 1)>> \o Split(SubSeq(s, i + 1, Len(s)), sep)

\* sep.join(parts)
RECURSIVE Join(_, _)
Join(parts, sep) ==
    IF Len(parts) = 0 THEN <<>>
    ELSE IF Len(parts) = 1 THEN parts[1]
    ELSE parts[1] \o sep \o Join(Tail(parts), sep)

\* str(n) for an integer n
RECURSIVE NatStr(_)
NatStr(n) == IF n < 10 THEN <<Digits[n + 1]>>
             ELSE NatStr(n \div 10) \o <<Digits[(n % 10) + 1]>>

IntStr(n) == IF n < 0 THEN <<"-">> \o NatStr(-n) ELSE NatStr(n)

\* the value of a non-empty run of digits
RECURSIVE DigitsVal(_)
DigitsVal(s) == IF Len(s) = 0 THEN 0
                ELSE 10 * DigitsVal(SubSeq(s, 1, Len(s) - 1)) + DigitVal(s[Len(s)])

AllDigits(s) == Len(s) >= 1 /\ \A i \in 1..Len(s) : IsDigit(s[i])

\* int(s): an optional sign and decimal digits; anything else is ValueError.
\* (Blanks and underscores, which int() also accepts, are in no modelled
\* segment.)
IntOk(s) ==
    \/ AllDigits(s)
    \/ Len(s) >= 2 /\ s[1] \in {"-", "+"} /\ AllDigits(Tail(s))

IntOf(s) ==
    IF s[1] = "-" THEN -DigitsVal(Tail(s))
    ELSE IF s[1] = "+" THEN DigitsVal(Tail(s))
    ELSE DigitsVal(s)

\* s.strip(chars): leading and trailing characters of the set removed
RECURSIVE LStrip(_, _)
LStrip(s, chars) ==
    IF Len(s) >= 1 /\ s[1] \in chars THEN LStrip(Tail(s), chars) ELSE s

RECURSIVE RStrip(_, _)
RStrip(s, chars) ==
    IF Len(s) >= 1 /\ s[Len(s)] \in chars
    THEN RStrip(SubSeq(s, 1, Len(s) - 1), chars) ELSE s

Strip(s, chars) == RStrip(LStrip(s, chars), chars)

\* the characters str.strip() removes and \s matches
Whitespace == {" ", "\t", "\n", "\r"}

Letters ==
    {"a", "b", "c", "d", "e", "f", "g", "h", "i", "j", "k", "l", "m", "n", "o",
     "p", "q", "r", "s", "t", "u", "v", "w", "x", "y", "z",
     "A", "B", "C", "D", "E", "F", "G", "H", "I", "J", "K", "L", "M", "N", "O",
     "P", "Q", "R", "S", "T", "U", "V", "W", "X", "Y", "Z"}

\* the characters of the modelled strings in code point order
Ascii ==
    <<" ", "!", "$", "'", "-", ".", "/",
      "0", "1", "2", "3", "4", "5", "6", "7", "8", "9", "<", "=", ">",
      "A", "B", "C", "D", "E", "F", "G", "H", "I", "J", "K", "L", "M", "N", "O",
      "P", "Q", "R", "S", "T", "U", "V", "W", "X", "Y", "Z", "_",
      "a", "b", "c", "d", "e", "f", "g", "h", "i", "j", "k", "l", "m", "n", "o",
      "p", "q", "r", "s", "t", "u", "v", "w", "x", "y", "z", "{", "}">>

Ord(c) == CHOOSE i \in 1..Len(Ascii) : Ascii[i] = c

\* 10 ** n
RECURSIVE Pow10(_)
Pow10(n) == IF n = 0 THEN 1 ELSE 10 * Pow10(n - 1)

\* the decimals of a float, trailing zeros dropped, at least one kept
RECURSIVE FracStr(_, _)
FracStr(frac, den) ==
    IF den = 1 THEN <<>>
    ELSE LET d == den \div 10
         IN  <<Digits[(frac \div d) + 1]>>
             \o (IF frac % d = 0 THEN <<>> ELSE FracStr(frac % d, d))

\* str(x) for a non-negative float num / den
FloatStr(num, den) ==
    NatStr(num \div den) \o <<".">>
    \o (IF den = 1 THEN <<"0">> ELSE FracStr(num % den, den))

----------------------------------------------------------------------------
(* str() and repr() of a datum *)

RECURSIVE PyRepr(_)
RECURSIVE ReprItems(_)
RECURSIVE ReprPairs(_)

\* ", ".join(repr(x) for x in items)
ReprItems(items) ==
    IF Len(items) = 0 THEN <<>>
    ELSE IF Len(items) = 1 THEN PyRepr(items[1])
    ELSE PyRepr(items[1]) \o <<",", " ">> \o ReprItems(Tail(items))

\* ", ".join(repr(k) + ": " + repr(v) for k, v in pairs)
ReprPairs(pairs) ==
    LET one(p) == <<"'">> \o p[1] \o <<"'", ":", " ">> \o PyRepr(p[2])
    IN  IF Len(pairs) = 0 THEN <<>>
        ELSE IF Len(pairs) = 1 THEN one(pairs[1])
        ELSE one(pairs[1]) \o <<",", " ">> \o ReprPairs(Tail(pairs))

PyRepr(v) ==
    CASE v.k = "null" -> <<"N", "o", "n", "e">>
      [] v.k = "bool" -> IF v.b THEN <<"T", "r", "u", "e">>
                         ELSE <<"F", "a", "l", "s", "e">>
      [] v.k = "int"  -> IntStr(v.n)
      [] v.k = "float" -> FloatStr(v.num, v.den)
      [] v.k = "str"  -> <<"'">> \o v.s \o <<"'">>
      [] v.k = "list" -> <<"[">> \o ReprItems(v.items) \o <<"]">>
      [] v.k = "dict" -> <<"{">> \o ReprPairs(v.pairs) \o <<"}">>

\* str(v): a string is itself, everything else is its repr
PyStr(v) == IF v.k = "str" THEN v.s ELSE PyRepr(v)

----------------------------------------------------------------------------
(* ExpressionEvaluator *)

\* data[index] for a list and an int index, negative indexes counting from
\* the end
ListIndexInRange(items, index) ==
    \/ index >= 0 /\ index < Len(items)
    \/ index < 0 /\ -index <= Len(items)

ListIndex_OneBased(items, index) ==
    IF index >= 1 /\ index <= Len(items) THEN items[index]
    ELSE Raise("IndexError")

ListIndex(items, index) ==
    IF index >= 0 /\ index < Len(items) THEN items[index + 1]
    ELSE IF index < 0 /\ -index <= Len(items) THEN items[Len(items) + index + 1]
    ELSE Raise("IndexError")

\* `index = int(part); data = data[index]`
IntIndex(items, part) ==
    IF ~IntOk(part) THEN Raise("ValueError") ELSE ListIndex(items, IntOf(part))

\* the exceptions _evaluate_dot_notation catches around the list step
DotCaught_OnlyIndexError == {"IndexError"}

DotCaught == {"ValueError", "IndexError"}

\* the loop of _evaluate_dot_notation over the remaining parts
RECURSIVE DotWalk(_, _)
DotWalk(data, parts) ==
    IF Len(parts) = 0 THEN data
    ELSE IF data.k = "dict" THEN DotWalk(DictGet(data, parts[1]), Tail(parts))
    ELSE IF data.k = "list" THEN
        LET item == IntIndex(data.items, parts[1])
        IN  IF IsRaise(item)
            THEN (IF item.exc \in DotCaught THEN Null ELSE item)
            ELSE DotWalk(item, Tail(parts))
    ELSE Null

_evaluate_dot_notation(ctx, path) == DotWalk(ctx, Split(path, "."))

\* s occurs somewhere in t (Python's `s in t` for two strings)
IsSubstring(s, t) == \E i \in 1..(Len(t) + 1) : MatchAt(t, s, i) \/ Len(s) = 0

\* the loop of _get_base: `if part not in data: raise ValueError`, then
\* `data = data[part]`
RECURSIVE BaseWalk(_, _)
BaseWalk(data, parts) ==
    IF Len(parts) = 0 THEN data
    ELSE CASE data.k = "dict" ->
                IF HasKey(data, parts[1])
                THEN BaseWalk(GetItem(data, parts[1]), Tail(parts))
                ELSE Raise("ValueError")
           [] data.k = "list" ->
                \* membership is by element; indexing a list by a str fails
                IF \E i \in 1..Len(data.items) : data.items[i] = S(parts[1])
                THEN Raise("TypeError") ELSE Raise("ValueError")
           [] data.k = "str" ->
                IF IsSubstring(parts[1], data.s)
                THEN Raise("TypeError") ELSE Raise("ValueError")
           [] OTHER -> Raise("TypeError")    \* `in` on an int, a bool or None

_get_base(ctx, base) == BaseWalk(ctx, Split(base, "."))

\* jsonpointer's unescape: "~1" is "/", then "~0" is "~"
RECURSIVE Replace2(_, _, _, _)
Replace2(s, c1, c2, by) ==
    IF Len(s) = 0 THEN <<>>
    ELSE IF Len(s) >= 2 /\ s[1] = c1 /\ s[2] = c2
         THEN <<by>> \o Replace2(SubSeq(s, 3, Len(s)), c1, c2, by)
         ELSE <<s[1]>> \o Replace2(Tail(s), c1, c2, by)

Unescape(part) == Replace2(Replace2(part, "~", "1", "/"), "~", "0", "~")

\* "~" followed by anything but 0 or 1
InvalidEscape(pointer) ==
    \E i \in 1..Len(pointer) :
        pointer[i] = "~" /\ (i = Len(pointer) \/ pointer[i + 1] \notin {"0", "1"})

\* a JSON Pointer array index: "0", or digits with no leading zero
IsArrayIndex(part) == AllDigits(part) /\ (part[1] # "0" \/ Len(part) = 1)

EndOfList == [k |-> "endoflist"]
PointerError == Raise("JsonPointerException")

\* JsonPointer.walk over the remaining reference tokens.  The library treats
\* any Sequence, a str included, as indexable by an array index.
RECURSIVE PointerWalk(_, _)
PointerWalk(doc, parts) ==
    IF Len(parts) = 0 THEN doc
    ELSE LET part == Unescape(parts[1]) IN
         CASE doc.k = "dict" ->
                IF HasKey(doc, part)
                THEN PointerWalk(GetItem(doc, part), Tail(parts))
                ELSE PointerError
           [] doc.k = "list" ->
                IF part = <<"-">> THEN PointerWalk(EndOfList, Tail(parts))
                ELSE IF ~IsArrayIndex(part) THEN PointerError
                ELSE IF DigitsVal(part) >= Len(doc.items) THEN PointerError
                ELSE PointerWalk(doc.items[DigitsVal(part) + 1], Tail(parts))
           [] doc.k = "str" ->
                IF part = <<"-">> THEN PointerWalk(EndOfList, Tail(parts))
                ELSE IF ~IsArrayIndex(part) THEN PointerError
                ELSE IF DigitsVal(part) >= Len(doc.s) THEN PointerError
                ELSE PointerWalk(S(<<doc.s[DigitsVal(part) + 1]>>), Tail(parts))
           [] OTHER -> PointerError

\* resolve_pointer(doc, pointer) for a pointer that starts with "/"
resolve_pointer(doc, pointer) ==
    IF InvalidEscape(pointer) THEN PointerError
    ELSE PointerWalk(doc, Tail(Split(pointer, "/")))

\* _evaluate_json_pointer: any exception of resolve_pointer becomes None
_evaluate_json_pointer(data, pointer) ==
    LET r == resolve_pointer(data, <<"/">> \o pointer)
    IN  IF IsRaise(r) THEN Null ELSE r

\* the greedy match of r"\$(.+)#/(.*)": the last "#/" with at least one
\* character between it and the leading "$"; 0 when there is none
PointerSplitAt(expression) ==
    LET at == {i \in 3..Len(expression) : MatchAt(expression, <<"#", "/">>, i)}
    IN  IF Len(expression) >= 1 /\ expression[1] = "$" /\ at # {}
        THEN CHOOSE i \in at : \A j \in at : j <= i
        ELSE 0

_evaluate(ctx, expression) ==
    IF PointerSplitAt(expression) # 0 THEN
        LET at      == PointerSplitAt(expression)
            base    == SubSeq(expression, 2, at - 1)
            pointer == SubSeq(expression, at + 2, Len(expression))
            data    == _get_base(ctx, base)
        IN  IF IsRaise(data) THEN data ELSE _evaluate_json_pointer(data, pointer)
    ELSE IF Len(expression) >= 2 /\ expression[1] = "$" THEN
        _evaluate_dot_notation(ctx, Tail(expression))
    ELSE Raise("ValueError")

\* replacer of _evaluate_embedded: str() of the value, "" on ValueError; any
\* other exception leaves the handler
replacer(ctx, expr) ==
    LET v == _evaluate(ctx, <<"$">> \o expr)
    IN  IF IsRaise(v) THEN (IF v.exc = "ValueError" THEN S(<<>>) ELSE v)
        ELSE S(PyStr(v))

\* a greedy (.+): the match runs to the last "}"
EmbeddedEnd_Greedy(s) ==
    LET ends == {j \in 4..Len(s) : s[j] = "}"}
    IN  IF Len(s) >= 4 /\ s[1] = "{" /\ s[2] = "$" /\ ends # {}
        THEN CHOOSE j \in ends : \A h \in ends : j >= h
        ELSE 0

\* where the non-greedy match of r"\{\$(.+?)\}" that starts at s[1] ends:
\* the first "}" from the fourth character on; 0 when s[1..] does not match
EmbeddedEnd(s) ==
    LET ends == {j \in 4..Len(s) : s[j] = "}"}
    IN  IF Len(s) >= 4 /\ s[1] = "{" /\ s[2] = "$" /\ ends # {}
        THEN CHOOSE j \in ends : \A h \in ends : j <= h
        ELSE 0

\* re.sub(r"\{\$(.+?)\}", replacer, s), scanning left to right
RECURSIVE EmbeddedSub(_, _)
EmbeddedSub(ctx, s) ==
    IF Len(s) = 0 THEN S(<<>>)
    ELSE IF EmbeddedEnd(s) # 0 THEN
        LET j    == EmbeddedEnd(s)
            rep  == replacer(ctx, SubSeq(s, 3, j - 1))
            rest == EmbeddedSub(ctx, SubSeq(s, j + 1, Len(s)))
        IN  IF IsRaise(rep) THEN rep
            ELSE IF IsRaise(rest) THEN rest
            ELSE S(rep.s \o rest.s)
    ELSE LET rest == EmbeddedSub(ctx, Tail(s))
         IN  IF IsRaise(rest) THEN rest ELSE S(<<s[1]>> \o rest.s)

_evaluate_embedded(ctx, expression) == EmbeddedSub(ctx, expression)

\* ExpressionEvaluator.__call__.  The class defines no
\* _evaluate_simple_expression, so the last branch is an AttributeError.
__call__(ctx, expression) ==
    IF Contains(expression, "{") /\ Contains(expression, "}")
    THEN _evaluate_embedded(ctx, expression)
    ELSE IF StartsWith(expression, <<"$">>) THEN _evaluate(ctx, expression)
    ELSE Raise("AttributeError")

----------------------------------------------------------------------------
(* Python comparison of two data *)

IsNumber(v) == v.k \in {"int", "bool", "float"}

\* a number as <<numerator, denominator>>; True is 1 and False is 0
Num(v) ==
    CASE v.k = "int"   -> <<v.n, 1>>
      [] v.k = "bool"  -> <<IF v.b THEN 1 ELSE 0, 1>>
      [] v.k = "float" -> <<v.num, v.den>>

\* left == right
RECURSIVE PyEq(_, _)
PyEq(l, r) ==
    IF IsNumber(l) /\ IsNumber(r) THEN Num(l)[1] * Num(r)[2] = Num(r)[1] * Num(l)[2]
    ELSE IF l.k # r.k THEN FALSE
    ELSE CASE l.k = "null" -> TRUE
           [] l.k = "str"  -> l.s = r.s
           [] l.k = "list" ->
                /\ Len(l.items) = Len(r.items)
                /\ \A i \in 1..Len(l.items) : PyEq(l.items[i], r.items[i])
           [] l.k = "dict" ->
                /\ Len(l.pairs) = Len(r.pairs)
                /\ \A i \in 1..Len(l.pairs) :
                      /\ HasKey(r, l.pairs[i][1])
                      /\ PyEq(l.pairs[i][2], GetItem(r, l.pairs[i][1]))
           [] OTHER -> FALSE

\* the order of two strings by code point: "lt", "eq" or "gt"
RECURSIVE StrOrder(_, _)
StrOrder(s, t) ==
    IF Len(s) = 0 /\ Len(t) = 0 THEN "eq"
    ELSE IF Len(s) = 0 THEN "lt"
    ELSE IF Len(t) = 0 THEN "gt"
    ELSE IF Ord(s[1]) < Ord(t[1]) THEN "lt"
    ELSE IF Ord(s[1]) > Ord(t[1]) THEN "gt"
    ELSE StrOrder(Tail(s), Tail(t))

\* the order Python's <, >, <=, >= see: "lt", "eq", "gt", or "err" for the
\* TypeError of operands that cannot be ordered
RECURSIVE PyOrder(_, _)
PyOrder(l, r) ==
    IF IsNumber(l) /\ IsNumber(r) THEN
        LET a == Num(l)[1] * Num(r)[2]
            b == Num(r)[1] * Num(l)[2]
        IN  IF a < b THEN "lt" ELSE IF a > b THEN "gt" ELSE "eq"
    ELSE IF l.k = "str" /\ r.k = "str" THEN StrOrder(l.s, r.s)
    ELSE IF l.k = "list" /\ r.k = "list" THEN
        LET m    == IF Len(l.items) < Len(r.items) THEN Len(l.items) ELSE Len(r.items)
            diff == {i \in 1..m : ~PyEq(l.items[i], r.items[i])}
        IN  IF diff # {}
            THEN LET i == CHOOSE j \in diff : \A h \in diff : j <= h
                 IN  PyOrder(l.items[i], r.items[i])
            ELSE IF Len(l.items) < Len(r.items) THEN "lt"
            ELSE IF Len(l.items) > Len(r.items) THEN "gt"
            ELSE "eq"
    ELSE "err"

----------------------------------------------------------------------------
(* ConditionEvaluator *)

\* _resolve_path: strip("$"), split on ".", then walk; a list is indexed by
\* int(part), anything else is asked .get(part); None at any step is a
\* ValueError
NoneCheck_Skipped(value) == value

\* `if value is None: raise ValueError`
NoneCheck(value) == IF value = Null THEN Raise("ValueError") ELSE value

RECURSIVE ResolveWalk(_, _)
ResolveWalk(value, parts) ==
    IF Len(parts) = 0 THEN value
    ELSE LET next ==
                 CASE value.k = "list" -> IntIndex(value.items, parts[1])
                   [] value.k = "dict" -> DictGet(value, parts[1])
                   [] OTHER -> Raise("AttributeError")  \* no .get on a scalar
             checked == IF IsRaise(next) THEN next ELSE NoneCheck(next)
         IN  IF IsRaise(checked) THEN checked
             ELSE ResolveWalk(checked, Tail(parts))

_resolve_path(ctx, path) == ResolveWalk(ctx, Split(Strip(path, {"$"}), "."))

\* re.match(r'^\d+(\.\d+)?$', s)
IsNumericLiteral(s) ==
    \/ AllDigits(s)
    \/ \E i \in 2..(Len(s) - 1) :
          /\ s[i] = "."
          /\ AllDigits(SubSeq(s, 1, i - 1))
          /\ AllDigits(SubSeq(s, i + 1, Len(s)))

\* float(s) if '.' in s else int(s), for a numeric literal
NumericValue(s) ==
    IF Contains(s, ".")
    THEN LET i == CHOOSE j \in 1..Len(s) : s[j] = "."
         IN  F(DigitsVal(SubSeq(s, 1, i - 1) \o SubSeq(s, i + 1, Len(s))),
               Pow10(Len(s) - i))
    ELSE I(DigitsVal(s))

\* _resolve_context of a str; called with None (no context given) it fails
\* on None.startswith
_resolve_context(ctx, given, text) ==
    IF ~given THEN Raise("AttributeError")
    ELSE IF StartsWith(text, <<"'">>) /\ EndsWith(text, <<"'">>)
    THEN S(Strip(text, {"'"}))
    ELSE IF IsNumericLiteral(text) THEN NumericValue(text)
    ELSE _resolve_path(ctx, text)

\* re.match(r'^\$[A-Za-z0-9\._]+$', condition) is not None
_is_simple_path(condition) ==
    /\ Len(condition) >= 2
    /\ condition[1] = "$"
    /\ \A i \in 2..Len(condition) :
          condition[i] \in Letters \/ IsDigit(condition[i]) \/ condition[i] \in {".", "_"}

OperatorChars == {"!", "=", "<", ">"}

\* _parse_comparison: re.match of
\*   (?P<left>[^!=<>]+)\s*(?P<operator>[!=<>]=?|<|>)\s*(?P<right>.+)
\* on condition.strip().  left is the text before the first operator
\* character; the operator takes a following "=" unless that leaves nothing
\* for right.  <<left, operator, right>>, each stripped, or a ValueError.
_parse_comparison_OneChar(condition) ==
    LET c   == Strip(condition, Whitespace)
        ops == {i \in 1..Len(c) : c[i] \in OperatorChars}
    IN  IF ops = {} THEN Raise("ValueError")
        ELSE LET i == CHOOSE j \in ops : \A h \in ops : j <= h
             IN  IF i = 1 \/ i + 1 > Len(c) THEN Raise("ValueError")
                 ELSE [k |-> "parsed",
                       left |-> Strip(SubSeq(c, 1, i - 1), Whitespace),
                       operator |-> SubSeq(c, i, i),
                       right |-> Strip(SubSeq(c, i + 1, Len(c)), Whitespace)]

_parse_comparison(condition) ==
    LET c   == Strip(condition, Whitespace)
        ops == {i \in 1..Len(c) : c[i] \in OperatorChars}
    IN  IF ops = {} THEN Raise("ValueError")
        ELSE LET i == CHOOSE j \in ops : \A h \in ops : j <= h
                 two == i + 1 <= Len(c) /\ c[i + 1] = "=" /\ i + 2 <= Len(c)
                 e == IF two THEN i + 1 ELSE i
             IN  IF i = 1 \/ e + 1 > Len(c) THEN Raise("ValueError")
                 ELSE [k |-> "parsed",
                       left |-> Strip(SubSeq(c, 1, i - 1), Whitespace),
                       operator |-> SubSeq(c, i, e),
                       right |-> Strip(SubSeq(c, e + 1, Len(c)), Whitespace)]

\* the operator's alternatives of _evaluate_comparison, operands resolved
Compare_NoOrEqual(operator, l, r) ==
    CASE operator = <<"=", "=">> -> B(PyEq(l, r))
      [] operator = <<"!", "=">> -> B(~PyEq(l, r))
      [] operator \in {<<"<">>, <<">">>, <<"<", "=">>, <<">", "=">>} ->
            IF PyOrder(l, r) = "err" THEN Raise("TypeError")
            ELSE B(CASE operator = <<"<">> -> PyOrder(l, r) = "lt"
                     [] operator = <<">">> -> PyOrder(l, r) = "gt"
                     [] operator = <<"<", "=">> -> PyOrder(l, r) = "lt"
                     [] operator = <<">", "=">> -> PyOrder(l, r) = "gt")
      [] OTHER -> Raise("ValueError")

Compare(operator, l, r) ==
    CASE operator = <<"=", "=">> -> B(PyEq(l, r))
      [] operator = <<"!", "=">> -> B(~PyEq(l, r))
      [] operator \in {<<"<">>, <<">">>, <<"<", "=">>, <<">", "=">>} ->
            IF PyOrder(l, r) = "err" THEN Raise("TypeError")
            ELSE B(CASE operator = <<"<">> -> PyOrder(l, r) = "lt"
                     [] operator = <<">">> -> PyOrder(l, r) = "gt"
                     [] operator = <<"<", "=">> -> PyOrder(l, r) \in {"lt", "eq"}
                     [] operator = <<">", "=">> -> PyOrder(l, r) \in {"gt", "eq"})
      [] OTHER -> Raise("ValueError")     \* Unknown operator

\* both operands are resolved, left first, before the operator is looked at
_evaluate_comparison(ctx, left_expr, operator, right_expr) ==
    LET left_value  == _resolve_context(ctx, TRUE, left_expr)
        right_value == _resolve_context(ctx, TRUE, right_expr)
    IN  IF IsRaise(left_value) THEN left_value
        ELSE IF IsRaise(right_value) THEN right_value
        ELSE Compare(operator, left_value, right_value)

\* a bare path is resolved and returned as it is
_evaluate_simple_Truthy(ctx, condition) ==
    IF _is_simple_path(condition)
    THEN LET v == _resolve_context(ctx, TRUE, condition)
         IN  IF IsRaise(v) THEN v
             ELSE B(v \notin {Null, B(FALSE), I(0), S(<<>>), L(<<>>), D(<<>>)})
    ELSE LET p == _parse_comparison(condition)
         IN  IF IsRaise(p) THEN p
             ELSE _evaluate_comparison(ctx, p.left, p.operator, p.right)

_evaluate_simple(ctx, condition) ==
    IF _is_simple_path(condition) THEN _resolve_context(ctx, TRUE, condition)
    ELSE LET p == _parse_comparison(condition)
         IN  IF IsRaise(p) THEN p
             ELSE _evaluate_comparison(ctx, p.left, p.operator, p.right)

\* re.match(pattern, text) for the patterns modelled: literal characters
\* with an optional leading "^" and an optional trailing "$".  A text that
\* is not a str is a TypeError.
_evaluate_regex(pattern, text) ==
    IF text = Null THEN Raise("ValueError")
    ELSE IF text.k # "str" THEN Raise("TypeError")
    ELSE LET p1  == IF StartsWith(pattern, <<"^">>) THEN Tail(pattern) ELSE pattern
             all == EndsWith(p1, <<"$">>)
             lit == IF all THEN SubSeq(p1, 1, Len(p1) - 1) ELSE p1
         IN  B(IF all THEN text.s = lit ELSE StartsWith(text.s, lit))

\* JSONPath (jsonpath_rw_ext), for the paths modelled:
\*   $  .name ...  [?(@.name == literal)]
\* with literal a run of digits or a single-quoted string.
NameChars == Letters \cup {"_"} \cup {Digits[i] : i \in 1..10}

\* the length of the longest prefix of s made of characters of the set
RECURSIVE RunLength(_, _)
RunLength(s, chars) ==
    IF Len(s) >= 1 /\ s[1] \in chars THEN 1 + RunLength(Tail(s), chars) ELSE 0

JsonPathError == Raise("JsonPathParserError")

\* the literal of a filter: digits are an int, '...' is a str
FilterLiteral(s) ==
    IF AllDigits(s) THEN I(DigitsVal(s))
    ELSE IF Len(s) >= 2 /\ s[1] = "'" /\ s[Len(s)] = "'"
              /\ ~Contains(SubSeq(s, 2, Len(s) - 1), "'")
    THEN S(SubSeq(s, 2, Len(s) - 1))
    ELSE JsonPathError

\* the steps after the leading "$": Steps(<<step, ...>>), or a parser error
Steps(seq) == [k |-> "steps", steps |-> seq]

RECURSIVE ParseSteps(_)
ParseSteps(s) ==
    IF Len(s) = 0 THEN Steps(<<>>)
    ELSE IF s[1] = "." THEN
        LET n    == RunLength(Tail(s), NameChars)
            rest == ParseSteps(SubSeq(s, n + 2, Len(s)))
        IN  IF n = 0 THEN JsonPathError
            ELSE IF IsRaise(rest) THEN rest
            ELSE Steps(<<[t |-> "field", name |-> SubSeq(s, 2, n + 1)]>> \o rest.steps)
    ELSE IF StartsWith(s, <<"[", "?", "(", "@", ".">>) THEN
        LET a     == SubSeq(s, 6, Len(s))
            n     == RunLength(a, NameChars)
            b     == LStrip(SubSeq(a, n + 1, Len(a)), {" "})
            c     == LStrip(SubSeq(b, 3, Len(b)), {" "})
            close == {i \in 1..(Len(c) - 1) : c[i] = ")" /\ c[i + 1] = "]"}
        IN  IF n = 0 \/ ~StartsWith(b, <<"=", "=">>) \/ close = {} THEN JsonPathError
            ELSE LET e    == CHOOSE i \in close : \A h \in close : i <= h
                     lit  == FilterLiteral(RStrip(SubSeq(c, 1, e - 1), {" "}))
                     rest == ParseSteps(SubSeq(c, e + 2, Len(c)))
                 IN  IF IsRaise(lit) THEN lit
                     ELSE IF IsRaise(rest) THEN rest
                     ELSE Steps(<<[t |-> "filter", name |-> SubSeq(a, 1, n),
                                   value |-> lit]>> \o rest.steps)
    ELSE JsonPathError

jsonpath_parse(expr) ==
    IF Len(expr) >= 1 /\ expr[1] = "$" THEN ParseSteps(Tail(expr)) ELSE JsonPathError

\* the values of a dict, in order
DictValues(d) == [i \in 1..Len(d.pairs) |-> d.pairs[i][2]]

\* the items of `data` a filter step keeps
RECURSIVE FilterKeep(_, _, _)
FilterKeep(items, name, value) ==
    IF Len(items) = 0 THEN <<>>
    ELSE (IF /\ items[1].k = "dict"
             /\ HasKey(items[1], name)
             /\ PyEq(GetItem(items[1], name), value)
          THEN <<items[1]>> ELSE <<>>)
         \o FilterKeep(Tail(items), name, value)

\* what one step finds in one datum
StepFind(step, data) ==
    IF step.t = "field"
    THEN (IF data.k = "dict" /\ HasKey(data, step.name)
          THEN <<GetItem(data, step.name)>> ELSE <<>>)
    ELSE CASE data.k = "list" -> FilterKeep(data.items, step.name, step.value)
           [] data.k = "dict" -> FilterKeep(DictValues(data), step.name, step.value)
           [] OTHER -> <<>>

\* one step applied to every datum found so far
RECURSIVE StepFindAll(_, _)
StepFindAll(step, found) ==
    IF Len(found) = 0 THEN <<>>
    ELSE StepFind(step, found[1]) \o StepFindAll(step, Tail(found))

\* jsonpath_expr.find(data)
RECURSIVE find(_, _)
find(steps, found) ==
    IF Len(steps) = 0 THEN found
    ELSE find(Tail(steps), StepFindAll(steps[1], found))

_evaluate_jsonpath_AtLeastTwo(jsonpath_expr, data) ==
    LET steps == jsonpath_parse(jsonpath_expr)
    IN  IF IsRaise(steps) THEN steps ELSE B(Len(find(steps.steps, <<data>>)) > 1)

\* _evaluate_jsonpath: len(matches) > 0
_evaluate_jsonpath(jsonpath_expr, data) ==
    LET steps == jsonpath_parse(jsonpath_expr)
    IN  IF IsRaise(steps) THEN steps ELSE B(Len(find(steps.steps, <<data>>)) > 0)

_evaluate_xpath(xpath_expr, xml_data) == Raise("NotImplementedError")

\* ConditionEvaluator.evaluate(condition, context, condition_type); `given`
\* is FALSE when context is left at its default None
evaluate(ctx, condition, given, context_expr, condition_type) ==
    IF condition_type = "simple" THEN _evaluate_simple(ctx, condition)
    ELSE IF condition_type \in {"regex", "jsonpath", "xpath"} THEN
        LET resolved_context == _resolve_context(ctx, given, context_expr)
        IN  IF IsRaise(resolved_context) THEN resolved_context
            ELSE CASE condition_type = "regex" ->
                        _evaluate_regex(condition, resolved_context)
                   [] condition_type = "jsonpath" ->
                        _evaluate_jsonpath(condition, resolved_context)
                   [] condition_type = "xpath" ->
                        _evaluate_xpath(condition, resolved_context)
    ELSE B(FALSE)

----------------------------------------------------------------------------
(* Contexts and expressions the evaluators are run on *)

\* Bound: the number of path segments in a generated expression (base and
\* pointer segments together, for the JSON Pointer form).
MaxDepth == 3

k_a  == <<"a">>
k_b  == <<"b">>
k_id == <<"i", "d">>
k_n  == <<"n">>
k_sc == <<"s", "c">>

\* { "a": {"id": 7, "b": ["x", {"id": 1}], "n": null},
\*   "b": [{"id": 1, "a": "Jo"}, {"id": 2}],
\*   "sc": 200 }
ContextA ==
    D(<< <<k_a, D(<< <<k_id, I(7)>>,
                     <<k_b, L(<<S(<<"x">>), D(<< <<k_id, I(1)>> >>)>>)>>,
                     <<k_n, Null>> >>)>>,
         <<k_b, L(<<D(<< <<k_id, I(1)>>, <<k_a, S(<<"J", "o">>)>> >>),
                    D(<< <<k_id, I(2)>> >>)>>)>>,
         <<k_sc, I(200)>> >>)

\* { "a": {"a": false, "b": "", "id": 0, "n": ["b"]},
\*   "b": "ab", "n": null, "sc": 404, "id": true }
ContextB ==
    D(<< <<k_a, D(<< <<k_a, B(FALSE)>>, <<k_b, S(<<>>)>>, <<k_id, I(0)>>,
                     <<k_n, L(<<S(k_b)>>)>> >>)>>,
         <<k_b, S(<<"a", "b">>)>>,
         <<k_n, Null>>,
         <<k_sc, I(404)>>,
         <<k_id, B(TRUE)>> >>)

Contexts == {ContextA, ContextB}

\* Path segments: keys that are present at some level, a key never present
\* at others, list indexes in and out of range, a negative index, and the
\* empty segment.
Segments == {k_a, k_b, k_id, k_n, k_sc, <<"0">>, <<"1">>, <<"-", "1">>, <<>>}

\* all sequences of 1..n segments
Paths(n) == UNION {[1..m -> Segments] : m \in 1..n}

DotShapes(n) == {[form |-> "dot", path |-> p] : p \in Paths(n)}

PtrShapes(n) ==
    {[form |-> "ptr", base |-> bp[1], ptr |-> bp[2]] :
        bp \in {x \in Paths(n - 1) \X Paths(n - 1) : Len(x[1]) + Len(x[2]) <= n}}

\* the text of a dot-notation or JSON Pointer expression
ShapeText(shape) ==
    IF shape.form = "dot" THEN <<"$">> \o Join(shape.path, <<".">>)
    ELSE <<"$">> \o Join(shape.base, <<".">>) \o <<"#", "/">> \o Join(shape.ptr, <<"/">>)

\* literal text around the embedded expressions of a template
Lits == {<<>>, <<"h", " ">>, <<"}", "{">>}

\* lits[1] {$e1} lits[2] {$e2} ... lits[n+1]; an inner "$e" is written "{$e}"
RECURSIVE TemplateText(_, _)
TemplateText(lits, inner) ==
    IF Len(inner) = 0 THEN lits[1]
    ELSE lits[1] \o <<"{">> \o ShapeText(inner[1]) \o <<"}">>
         \o TemplateText(Tail(lits), Tail(inner))

\* templates with one embedded expression
OneShapes ==
    {[form |-> "tmpl", lits |-> <<l[1], l[2]>>, inner |-> <<e>>] :
        l \in Lits \X Lits,
        e \in DotShapes(MaxDepth - 1) \cup PtrShapes(MaxDepth - 1)}

\* templates with two embedded expressions
TwoInner ==
    DotShapes(1) \cup {s \in PtrShapes(2) : s.base = <<k_a>>}

TwoShapes ==
    {[form |-> "tmpl", lits |-> <<<<"h", " ">>, <<" ">>, <<"!">>>>, inner |-> <<e[1], e[2]>>] :
        e \in TwoInner \X TwoInner}

\* strings with no leading "$" and no "{$...}"
Literals ==
    {<<>>, <<"a", "b">>, <<"a", ".", "b">>, <<"2", "0", "0">>, <<"a", "$", "b">>,
     <<"a", "{", "b", "}">>, <<"}", "{">>, <<"{", "a">>, <<"a", "}">>, <<"{", "}">>}

LitShapes == {[form |-> "lit", text |-> t] : t \in Literals}

ExprText(shape) ==
    CASE shape.form \in {"dot", "ptr"} -> ShapeText(shape)
      [] shape.form = "tmpl" -> TemplateText(shape.lits, shape.inner)
      [] shape.form = "lit" -> shape.text

ExprShapes ==
    DotShapes(MaxDepth) \cup PtrShapes(MaxDepth) \cup OneShapes \cup TwoShapes
    \cup LitShapes

----------------------------------------------------------------------------
(* The expression evaluator as a state machine: one call per behaviour *)

Init ==
    /\ context \in Contexts
    /\ pending \in {[fn |-> "__call__", expression |-> ExprText(s), shape |-> s] :
                        s \in ExprShapes}
    /\ result = NoResult

\* evaluator(expression)
ExprCall ==
    /\ pending.fn = "__call__"
    /\ result = NoResult
    /\ result' = __call__(context, pending.expression)
    /\ UNCHANGED <<context, pending>>

Next == ExprCall

Spec == Init /\ [][Next]_vars

----------------------------------------------------------------------------
(* The criterion evaluator as a state machine: one call per behaviour *)

k_steps   == <<"s", "t", "e", "p", "s">>
k_outputs == <<"o", "u", "t", "p", "u", "t", "s">>
k_s1  == <<"s", "1">>
k_s2  == <<"s", "2">>
k_s3  == <<"s", "3">>
k_tok == <<"t", "o", "k">>
k_cnt == <<"c", "n", "t">>
k_ok  == <<"o", "k">>
k_e   == <<"e">>
k_ls  == <<"l", "s">>
k_zz  == <<"z", "z">>

\* { "steps": {"s1": {"outputs": {"tok": "abcd", "cnt": 0, "ok": false,
\*                                "e": "", "n": null, "ls": [1]}},
\*             "s2": {"outputs": {}}},
\*   "sc": 200 }
ContextC ==
    D(<< <<k_steps,
           D(<< <<k_s1, D(<< <<k_outputs,
                               D(<< <<k_tok, S(<<"a", "b", "c", "d">>)>>,
                                    <<k_cnt, I(0)>>,
                                    <<k_ok, B(FALSE)>>,
                                    <<k_e, S(<<>>)>>,
                                    <<k_n, Null>>,
                                    <<k_ls, L(<<I(1)>>)>> >>)>> >>)>>,
                <<k_s2, D(<< <<k_outputs, D(<<>>)>> >>)>> >>)>>,
         <<k_sc, I(200)>> >>)

CondContexts == {ContextA, ContextB, ContextC}

\* $steps.<stepId>.outputs.<name>
OutputPath(shape) == <<k_steps, shape.step, k_outputs, shape.name>>

OutputShapes ==
    {[form |-> "output", step |-> s, name |-> n] :
        s \in {k_s1, k_s2, k_s3},
        n \in {k_tok, k_cnt, k_ok, k_e, k_n, k_ls, k_zz}}

\* Operands of a comparison: paths, integer and decimal literals, a quoted
\* string, a bare word.
OperandSegments == {k_a, k_b, k_id, k_n, k_sc, <<"0">>}

OperandPaths(n) == UNION {[1..m -> OperandSegments] : m \in 1..n}

LiteralOperands ==
    {[o |-> "int", n |-> n] : n \in {0, 1, 7, 200, 201}}
    \cup {[o |-> "dec", whole |-> 7, tenths |-> t] : t \in {0, 5}}
    \cup {[o |-> "quoted", text |-> <<"a", "b">>], [o |-> "word", text |-> <<"n", "u", "l", "l">>]}

LeftOperands == {[o |-> "path", path |-> p] : p \in OperandPaths(MaxDepth - 1)} \cup LiteralOperands

\* a quoted operand whose text begins with a quote: ''b'
NestedQuoteOperand == [o |-> "quoted", text |-> <<"'", "b">>]

RightOperands ==
    {[o |-> "path", path |-> p] : p \in OperandPaths(1)} \cup LiteralOperands
    \cup {NestedQuoteOperand}

OperandText(opd) ==
    CASE opd.o = "path"   -> <<"$">> \o Join(opd.path, <<".">>)
      [] opd.o = "int"    -> NatStr(opd.n)
      [] opd.o = "dec"    -> NatStr(opd.whole) \o <<".">> \o NatStr(opd.tenths)
      [] opd.o = "quoted" -> <<"'">> \o opd.text \o <<"'">>
      [] opd.o = "word"   -> opd.text

ComparisonOperators == {<<"=", "=">>, <<"!", "=">>, <<"<">>, <<">">>, <<"<", "=">>, <<">", "=">>}

\* the six operators, and the lone "=" and "!" the pattern also takes
WrittenOperators == ComparisonOperators \cup {<<"=">>, <<"!">>}

\* written without blanks, and with a blank on either side of the operator
\* for the shorter left operands
CmpShapes ==
    {[form |-> "cmp", left |-> l, op |-> op, right |-> r, ws |-> <<>>] :
        l \in LeftOperands, op \in WrittenOperators, r \in RightOperands}
    \cup
    {[form |-> "cmp", left |-> l, op |-> op, right |-> r, ws |-> <<" ">>] :
        l \in RightOperands, op \in WrittenOperators, r \in RightOperands}

CmpText(shape) ==
    OperandText(shape.left) \o shape.ws \o shape.op \o shape.ws \o OperandText(shape.right)

\* JSONPath conditions $.field and $.field[?(@.name == literal)], applied to
\* the datum at a context path
FilterValues == {I(1), I(2), I(99), S(<<"J", "o">>)}

JsonPathShapes ==
    {[form |-> "jsonpath", at |-> p, field |-> f, filtered |-> FALSE,
      name |-> <<>>, value |-> Null] :
        p \in OperandPaths(MaxDepth - 1), f \in {k_a, k_b, k_n, k_id}}
    \cup
    {[form |-> "jsonpath", at |-> p, field |-> f, filtered |-> TRUE,
      name |-> g, value |-> v] :
        p \in OperandPaths(MaxDepth - 1), f \in {k_a, k_b, k_n, k_id},
        g \in {k_id, k_a}, v \in FilterValues}

JsonPathText(shape) ==
    <<"$", ".">> \o shape.field
    \o (IF shape.filtered
        THEN <<"[", "?", "(", "@", ".">> \o shape.name \o <<" ", "=", "=", " ">>
             \o (IF shape.value.k = "int" THEN NatStr(shape.value.n)
                 ELSE <<"'">> \o shape.value.s \o <<"'">>)
             \o <<")", "]">>
        ELSE <<>>)

\* Regex criteria: a pattern of literal characters, anchored or not, applied
\* to the datum at a context path, to a quoted string or to a number
RegexOperands ==
    {[o |-> "path", path |-> p] : p \in OperandPaths(MaxDepth - 1)}
    \cup {[o |-> "int", n |-> 200], [o |-> "quoted", text |-> <<"a", "b">>]}

RegexPatterns ==
    {<<>>, <<"a">>, <<"a", "b">>, <<"^", "a", "b", "$">>, <<"^", "a", "$">>, <<"b">>,
     <<"2">>, <<"2", "0">>, <<"^", "2", "0", "0", "$">>, <<"^", "2", "0", "$">>,
     <<"7">>}

RegexShapes ==
    {[form |-> "regex", at |-> a, pattern |-> p] :
        a \in RegexOperands, p \in RegexPatterns}

\* XPath criteria, with a context expression as for regex, or with none
XPathShapes ==
    {[form |-> "xpath", at |-> a, expr |-> x] :
        a \in RegexOperands \cup {[o |-> "absent"]},
        x \in {<<"/", "a">>, <<"/", "/", "b">>}}

\* the arguments of evaluate() for a shape
Criterion(s) ==
    CASE s.form = "dot" ->
            [fn |-> "evaluate", condition |-> ShapeText(s), given |-> FALSE,
             context |-> <<>>, condition_type |-> "simple", shape |-> s]
      [] s.form = "output" ->
            [fn |-> "evaluate", condition |-> <<"$">> \o Join(OutputPath(s), <<".">>),
             given |-> FALSE, context |-> <<>>, condition_type |-> "simple", shape |-> s]
      [] s.form = "cmp" ->
            [fn |-> "evaluate", condition |-> CmpText(s), given |-> FALSE,
             context |-> <<>>, condition_type |-> "simple", shape |-> s]
      [] s.form = "jsonpath" ->
            [fn |-> "evaluate", condition |-> JsonPathText(s), given |-> TRUE,
             context |-> <<"$">> \o Join(s.at, <<".">>),
             condition_type |-> "jsonpath", shape |-> s]
      [] s.form = "regex" ->
            [fn |-> "evaluate", condition |-> s.pattern, given |-> TRUE,
             context |-> OperandText(s.at),
             condition_type |-> "regex", shape |-> s]
      [] s.form = "xpath" ->
            [fn |-> "evaluate", condition |-> s.expr, given |-> s.at.o # "absent",
             context |-> IF s.at.o = "absent" THEN <<>> ELSE OperandText(s.at),
             condition_type |-> "xpath", shape |-> s]

CondShapes ==
    DotShapes(MaxDepth) \cup OutputShapes \cup CmpShapes \cup JsonPathShapes
    \cup RegexShapes \cup XPathShapes

InitCond ==
    /\ context \in CondContexts
    /\ pending \in {Criterion(s) : s \in CondShapes}
    /\ result = NoResult

\* evaluator.evaluate(condition, context, condition_type)
CondEvaluate ==
    /\ pending.fn = "evaluate"
    /\ result = NoResult
    /\ result' = evaluate(context, pending.condition, pending.given,
                          pending.context, pending.condition_type)
    /\ UNCHANGED <<context, pending>>

NextCond == CondEvaluate

SpecCond == InitCond /\ [][NextCond]_vars

----------------------------------------------------------------------------
(* What the specification says of a path, stated without the evaluator:    *)
(* the structural lookup of a list of segments                             *)

\* a sequence index in canonical decimal form
IsIndexSegment(seg) == AllDigits(seg)

\* an integer, possibly signed
IsIntegerSegment(seg) ==
    AllDigits(seg) \/ (Len(seg) >= 2 /\ seg[1] = "-" /\ AllDigits(Tail(seg)))

\* the path exists: every mapping has the key, every sequence the index
RECURSIVE PathExists(_, _)
PathExists(data, path) ==
    IF Len(path) = 0 THEN TRUE
    ELSE CASE data.k = "dict" ->
                HasKey(data, path[1]) /\ PathExists(GetItem(data, path[1]), Tail(path))
           [] data.k = "list" ->
                /\ IsIndexSegment(path[1])
                /\ DigitsVal(path[1]) < Len(data.items)
                /\ PathExists(data.items[DigitsVal(path[1]) + 1], Tail(path))
           [] OTHER -> FALSE

\* the value at a path that exists
RECURSIVE Lookup(_, _)
Lookup(data, path) ==
    IF Len(path) = 0 THEN data
    ELSE IF data.k = "dict" THEN Lookup(GetItem(data, path[1]), Tail(path))
    ELSE Lookup(data.items[DigitsVal(path[1]) + 1], Tail(path))

\* why a path does not lead to a value: the first segment that fails
RECURSIVE PathFailure(_, _)
PathFailure(data, path) ==
    IF Len(path) = 0 THEN "none"
    ELSE CASE data.k = "dict" ->
                IF HasKey(data, path[1])
                THEN PathFailure(GetItem(data, path[1]), Tail(path))
                ELSE "missing_key"
           [] data.k = "list" ->
                IF ~IsIntegerSegment(path[1]) THEN "non_integer"
                ELSE IF path[1][1] = "-" THEN "negative"
                ELSE IF DigitsVal(path[1]) >= Len(data.items) THEN "out_of_range"
                ELSE PathFailure(data.items[DigitsVal(path[1]) + 1], Tail(path))
           [] OTHER -> "scalar_or_null"

Called == pending.fn = "__call__" /\ result # NoResult

\* every segment of the expression has at least one character
NoEmptySegment(shape) ==
    IF shape.form = "dot" THEN \A i \in 1..Len(shape.path) : Len(shape.path[i]) >= 1
    ELSE /\ \A i \in 1..Len(shape.base) : Len(shape.base[i]) >= 1
         /\ \A i \in 1..Len(shape.ptr) : Len(shape.ptr[i]) >= 1

----------------------------------------------------------------------------
(* C1: for a dot-notation expression $k1.k2...kn whose path exists in the  *)
(* context (mapping keys, in-range integer segments for sequences), the    *)
(* evaluator returns exactly the value found by looking up k1, then k2,    *)
(* ... then kn in the context, also when that value is a mapping or a      *)
(* sequence.                                                               *)
C1_DotLookup ==
    (/\ Called
     /\ pending.shape.form = "dot"
     /\ PathExists(context, pending.shape.path))
    => result = Lookup(context, pending.shape.path)

\* a three-segment path through a mapping and a sequence that ends at a mapping
C1_Witness ==
    /\ Called
    /\ pending.shape.form = "dot"
    /\ Len(pending.shape.path) = 3
    /\ IsIndexSegment(pending.shape.path[3])
    /\ PathExists(context, pending.shape.path)
    /\ result.k = "dict"

----------------------------------------------------------------------------
(* C5: dot-notation evaluation never raises: for a `$`-prefixed dot path   *)
(* (at least one character after the `$`), a missing mapping key, a        *)
(* non-integer segment applied to a sequence, an out-of-range sequence     *)
(* index, or a further segment applied to a scalar or null node all yield  *)
(* null.                                                                   *)
C5_DotNeverRaises ==
    (/\ Called
     /\ pending.shape.form = "dot"
     /\ Len(pending.expression) >= 2)
    => /\ ~IsRaise(result)
       /\ PathFailure(context, pending.shape.path)
              \in {"missing_key", "non_integer", "out_of_range", "scalar_or_null"}
          => result = Null

\* a non-integer segment applied to a sequence two levels down
C5_Witness ==
    /\ Called
    /\ pending.shape.form = "dot"
    /\ Len(pending.shape.path) = 3
    /\ pending.shape.path[3] = k_id
    /\ PathFailure(context, pending.shape.path) = "non_integer"
    /\ result = Null

----------------------------------------------------------------------------
(* Templates *)

\* evaluate("$EXPR") for an embedded expression
InnerValue(shape) == __call__(context, ShapeText(shape))

\* the embedded expression resolves: a value, and not null
Resolves(shape) == ~IsRaise(InnerValue(shape)) /\ InnerValue(shape) # Null

\* lits[1] str(v1) lits[2] str(v2) ... : the template with each {$EXPR}
\* replaced by str(evaluate("$EXPR"))
RECURSIVE Substituted(_, _)
Substituted(lits, inner) ==
    IF Len(inner) = 0 THEN lits[1]
    ELSE lits[1] \o PyStr(InnerValue(inner[1])) \o Substituted(Tail(lits), Tail(inner))

(* C2: for a string with one or more embedded {$EXPR} whose expressions    *)
(* all resolve (dot-notation or JSON Pointer form), the evaluator returns  *)
(* the string with each {$EXPR} replaced by str(evaluate("$EXPR")) and     *)
(* every character outside the braces unchanged.                           *)
C2_TemplateSubstitution ==
    (/\ Called
     /\ pending.shape.form = "tmpl"
     /\ \A i \in 1..Len(pending.shape.inner) : Resolves(pending.shape.inner[i]))
    => result = S(Substituted(pending.shape.lits, pending.shape.inner))

\* two embedded expressions, a dot-notation one and a JSON Pointer one
C2_Witness ==
    /\ Called
    /\ pending.shape.form = "tmpl"
    /\ Len(pending.shape.inner) = 2
    /\ pending.shape.inner[1].form = "dot"
    /\ pending.shape.inner[2].form = "ptr"
    /\ \A i \in 1..2 : Resolves(pending.shape.inner[i])
    /\ result.k = "str"

\* the embedded expression fails to resolve: a dot path with a missing key,
\* or a JSON Pointer form whose base or whose pointer is missing
FailsToResolve(shape) ==
    IF shape.form = "dot" THEN PathFailure(context, shape.path) = "missing_key"
    ELSE \/ PathFailure(context, shape.base) = "missing_key"
         \/ /\ PathExists(context, shape.base)
            /\ PathFailure(Lookup(context, shape.base), shape.ptr) = "missing_key"

(* C3: for an embedded {$EXPR} whose expression fails to resolve, in       *)
(* either form, the template result has the text None in place of the      *)
(* occurrence; it is never the empty string and no error is raised.        *)
C3_UnresolvedIsNone ==
    (/\ Called
     /\ pending.shape.form = "tmpl"
     /\ Len(pending.shape.inner) = 1
     /\ NoEmptySegment(pending.shape.inner[1])
     /\ FailsToResolve(pending.shape.inner[1]))
    => result = S(pending.shape.lits[1] \o <<"N", "o", "n", "e">> \o pending.shape.lits[2])

(* C4: evaluate("$base#/ptr") equals the RFC 6901 pointer /ptr applied to  *)
(* the value evaluate("$base") returns, the base being resolved as a       *)
(* dot-notation path, and is null, with no error, when the pointer does    *)
(* not resolve.                                                            *)
C4_PointerOverDotBase ==
    (/\ Called
     /\ pending.shape.form = "ptr"
     /\ NoEmptySegment(pending.shape))
    => result = _evaluate_json_pointer(
                    __call__(context, <<"$">> \o Join(pending.shape.base, <<".">>)),
                    Join(pending.shape.ptr, <<"/">>))

(* C6: a string with no leading `$` and no embedded {$...} is returned     *)
(* unchanged, and no error is raised.                                      *)
C6_LiteralUnchanged ==
    (Called /\ pending.shape.form = "lit") => result = S(pending.expression)

----------------------------------------------------------------------------
(* Criteria *)

Evaluated == pending.fn = "evaluate" /\ result # NoResult

\* the operand is a number: a numeric literal, or a path that exists and
\* leads to an integer
IsNumberOperand(opd) ==
    \/ opd.o \in {"int", "dec"}
    \/ /\ opd.o = "path"
       /\ PathExists(context, opd.path)
       /\ Lookup(context, opd.path).k = "int"

\* its value as <<numerator, denominator>>
OperandNumber(opd) ==
    CASE opd.o = "int"  -> <<opd.n, 1>>
      [] opd.o = "dec"  -> <<10 * opd.whole + opd.tenths, 10>>
      [] opd.o = "path" -> <<Lookup(context, opd.path).n, 1>>

\* the standard comparison of two numbers
StandardComparison(op, x, y) ==
    LET a == x[1] * y[2]
        b == y[1] * x[2]
    IN  CASE op = <<"=", "=">> -> a = b
          [] op = <<"!", "=">> -> a # b
          [] op = <<"<">>      -> a < b
          [] op = <<">">>      -> a > b
          [] op = <<"<", "=">> -> a <= b
          [] op = <<">", "=">> -> a >= b

(* C7: for a simple criterion `L op R` with op one of ==, !=, <, >, <=, >= *)
(* whose operands resolve to numbers, evaluate returns true exactly when   *)
(* the standard comparison of the two values holds, and false otherwise.   *)
C7_NumericComparison ==
    (/\ Evaluated
     /\ pending.shape.form = "cmp"
     /\ pending.shape.op \in ComparisonOperators
     /\ IsNumberOperand(pending.shape.left)
     /\ IsNumberOperand(pending.shape.right))
    => result = B(StandardComparison(pending.shape.op,
                                     OperandNumber(pending.shape.left),
                                     OperandNumber(pending.shape.right)))

\* "$sc == 200" with sc 200 is true
C7_Witness ==
    /\ Evaluated
    /\ context = ContextA
    /\ pending.condition = <<"$", "s", "c", " ", "=", "=", " ", "2", "0", "0">>
    /\ result = B(TRUE)

\* the JSONPath condition has a match in datum: the field is there, and for
\* a filter some element of it has the named member equal to the value
HasMatch(datum, shape) ==
    /\ datum.k = "dict"
    /\ HasKey(datum, shape.field)
    /\ shape.filtered =>
          LET elems == GetItem(datum, shape.field)
          IN  /\ elems.k = "list"
              /\ \E i \in 1..Len(elems.items) :
                    /\ elems.items[i].k = "dict"
                    /\ HasKey(elems.items[i], shape.name)
                    /\ GetItem(elems.items[i], shape.name) = shape.value

BarePath == IF pending.shape.form = "output" THEN OutputPath(pending.shape)
            ELSE pending.shape.path

IsBarePath ==
    /\ Evaluated
    /\ pending.shape.form \in {"dot", "output"}
    /\ _is_simple_path(pending.condition)

\* what the path leads to: the value there, null when the path is missing
ValueAt(data, path) == IF PathExists(data, path) THEN Lookup(data, path) ELSE Null

Falsy(v) == v \in {Null, B(FALSE), I(0), S(<<>>)}

(* C9 as claimed: for a bare path the evaluator returns a boolean: false   *)
(* when the path resolves to null, false, 0 or the empty string, a missing *)
(* path included, and true otherwise; never the raw value, never an error. *)
C9_BarePathCoerced ==
    (IsBarePath /\ (pending.shape.form = "output" \/ NoEmptySegment(pending.shape)))
    => result = B(~Falsy(ValueAt(context, BarePath)))

\* every segment of the path leads to a value that is not null
RECURSIVE ResolvesNonNull(_, _)
ResolvesNonNull(data, path) ==
    IF Len(path) = 0 THEN TRUE
    ELSE /\ PathExists(data, <<path[1]>>)
         /\ Lookup(data, <<path[1]>>) # Null
         /\ ResolvesNonNull(Lookup(data, <<path[1]>>), Tail(path))

(* C9 amended: for a bare path the evaluator returns the resolved value    *)
(* itself, not coerced to a boolean (false, 0 and the empty string come    *)
(* back as such), when every segment resolves to a non-null value; when a  *)
(* segment is missing or resolves to null it raises an error.              *)
C9_BarePathRaw ==
    IsBarePath =>
        IF ResolvesNonNull(context, BarePath)
        THEN result = Lookup(context, BarePath)
        ELSE IsRaise(result)

\* a path that leads to 0: the 0 comes back, not false
C9_Witness ==
    /\ IsBarePath
    /\ pending.shape.form = "dot"
    /\ Len(pending.shape.path) = 2
    /\ result = I(0)

----------------------------------------------------------------------------
(* The workflow runner (arazzo_ai/runner.py)                               *)
(*                                                                         *)
(* A Step is the record of the fields the runner reads, an absent optional *)
(* field being Null (None).  Its lists are L(<<...>>), its outputs the     *)
(* dict D(<< <<name, expression>> ... >>), an action's step_id S(chars).   *)

k_statusCode == <<"s", "t", "a", "t", "u", "s", "C", "o", "d", "e">>
k_response   == <<"r", "e", "s", "p", "o", "n", "s", "e">>
k_headers    == <<"h", "e", "a", "d", "e", "r", "s">>
k_body       == <<"b", "o", "d", "y">>
k_inputs     == <<"i", "n", "p", "u", "t", "s">>

\* d[key] = value
SetItem(d, key, value) ==
    IF HasKey(d, key)
    THEN D([i \in 1..Len(d.pairs) |->
                IF d.pairs[i][1] = key THEN <<key, value>> ELSE d.pairs[i]])
    ELSE D(Append(d.pairs, <<key, value>>))

\* the response every step is answered with
simulate_response(step, ctx) ==
    D(<< <<k_statusCode, I(200)>>,
         <<k_body,
           D(<< <<<<"e", "x", "i", "s", "t", "i", "n", "g", "C", "u", "s", "t", "o", "m", "e", "r", "N", "o", "t", "E", "l", "i", "g", "i", "b", "l", "e">>, B(FALSE)>>,
                <<<<"p", "r", "o", "d", "u", "c", "t", "s">>,
                  L(<<D(<< <<<<"p", "r", "o", "d", "u", "c", "t", "C", "o", "d", "e">>, S(<<"P", "R", "D", "1", "2", "3">>)>>,
                           <<<<"e", "l", "i", "g", "i", "b", "l", "e">>, B(TRUE)>> >>)>>)>>,
                <<<<"e", "l", "i", "g", "i", "b", "i", "l", "i", "t", "y", "C", "h", "e", "c", "k", "R", "e", "q", "u", "i", "r", "e", "d">>, B(TRUE)>>,
                <<<<"r", "e", "d", "i", "r", "e", "c", "t", "A", "u", "t", "h", "T", "o", "k", "e", "n">>, S(<<"d", "u", "m", "m", "y", "A", "u", "t", "h", "T", "o", "k", "e", "n">>)>>,
                <<<<"l", "i", "n", "k", "s">>,
                  D(<< <<<<"s", "e", "l", "f">>, S(<<"h", "t", "t", "p", "s", ":", "/", "/", "a", "p", "i", ".", "e", "x", "a", "m", "p", "l", "e", ".", "c", "o", "m", "/", "c", "u", "s", "t", "o", "m", "e", "r", "/", "1", "2", "3", "4", "5">>)>> >>)>>,
                <<<<"t", "o", "t", "a", "l", "A", "m", "o", "u", "n", "t">>, F(1000, 1)>> >>)>>,
         <<k_headers,
           D(<< <<<<"L", "o", "c", "a", "t", "i", "o", "n">>, S(<<"h", "t", "t", "p", "s", ":", "/", "/", "a", "u", "t", "h", ".", "e", "x", "a", "m", "p", "l", "e", ".", "c", "o", "m", "/", "r", "e", "d", "i", "r", "e", "c", "t">>)>> >>)>> >>)

\* bool(result)
bool(v) ==
    /\ v \notin {Null, B(FALSE), I(0), S(<<>>), L(<<>>), D(<<>>)}
    /\ ~(v.k = "float" /\ v.num = 0)

\* return bool(result), except Exception: return False
CriteriaResult(r) == IF IsRaise(r) THEN FALSE ELSE bool(r)

\* evaluate_criteria(criteria, context, evaluator)
evaluate_criteria(criteria, ctx) == CriteriaResult(__call__(ctx, criteria.condition))

\* for output_key, output_expression in step.outputs.items(): the context
\* reached, and the exception that ended the loop (Null when none did)
RECURSIVE OutputsLoop(_, _)
\* context[output_key] = result, and on to the next item
OutputsStore(items, ctx, r) ==
    IF IsRaise(r) THEN [context |-> ctx, exc |-> r]
    ELSE OutputsLoop(Tail(items), SetItem(ctx, items[1][1], r))

OutputsLoop(items, ctx) ==
    IF items = <<>> THEN [context |-> ctx, exc |-> Null]
    ELSE OutputsStore(items, ctx, __call__(ctx, items[1][2]))

\* execute_step(step, context, evaluator): context.update(...), then the
\* outputs; step.outputs of None has no items()
execute_step(step, ctx) ==
    LET response == simulate_response(step, ctx)
        updated  == SetItem(SetItem(SetItem(ctx,
                        k_statusCode, GetItem(response, k_statusCode)),
                        k_response, GetItem(response, k_body)),
                        k_headers, GetItem(response, k_headers))
    IN  IF step.outputs = Null
        THEN [context |-> updated, exc |-> Raise("AttributeError")]
        ELSE OutputsLoop(step.outputs.pairs, updated)

\* steps_by_id = {step.step_id: step for step in steps}; .get(step_id)
StepsById_First(steps, step_id) ==
    IF \E i \in 1..Len(steps) : S(steps[i].step_id) = step_id
    THEN steps[1]
    ELSE Null

StepsById(steps, step_id) ==
    IF \E i \in 1..Len(steps) : S(steps[i].step_id) = step_id
    THEN LET last == CHOOSE i \in 1..Len(steps) :
                        /\ S(steps[i].step_id) = step_id
                        /\ \A j \in (i + 1)..Len(steps) : S(steps[j].step_id) # step_id
         IN  steps[last]
    ELSE Null

\* next(iter(steps_by_id.values()), None)
FirstStep(steps) ==
    IF steps = <<>> THEN Null ELSE StepsById(steps, S(steps[1].step_id))

\* the scan of on_success from its i-th action on: the action that met its
\* criteria (fired, 0 when none did), the step returned, and the exception
\* raised instead (iterating criteria of None)
RECURSIVE ScanActions(_, _, _, _)
ScanActions(actions, i, ctx, steps) ==
    IF i > Len(actions) THEN [exc |-> Null, fired |-> 0, next |-> Null]
    ELSE LET action == actions[i]
         IN  IF action.criteria = Null
             THEN [exc |-> Raise("TypeError"), fired |-> 0, next |-> Null]
             ELSE IF \A c \in 1..Len(action.criteria.items) :
                        evaluate_criteria(action.criteria.items[c], ctx)
             THEN IF action.type_ = "goto"
                  THEN [exc |-> Null, fired |-> i,
                        next |-> StepsById(steps, action.step_id)]
                  ELSE [exc |-> Null, fired |-> i, next |-> Null]
             ELSE ScanActions(actions, i + 1, ctx, steps)

\* transition_to_next_step(current_step, context, steps_by_id, evaluator);
\* on_success of None is not iterable
transition_to_next_step(current_step, ctx, steps) ==
    IF current_step.on_success = Null
    THEN [exc |-> Raise("TypeError"), fired |-> 0, next |-> Null]
    ELSE ScanActions(current_step.on_success.items, 1, ctx, steps)

----------------------------------------------------------------------------
(* Workflows the runner is run on *)

\* Bound: the number of step invocations of one run (a goto can loop).
MaxInvocations == 4

k_token == <<"t", "o", "k", "e", "n">>
k_code  == <<"c", "o", "d", "e">>
k_flag  == <<"f", "l", "a", "g">>
k_got   == <<"g", "o", "t">>

\* input_data of run_workflow
InputData ==
    {D(<< <<k_token, S(<<"a", "b", "c", "d">>)>>, <<k_code, I(500)>>, <<k_flag, B(TRUE)>> >>),
     D(<< <<k_token, S(<<>>)>>, <<k_code, I(200)>>, <<k_flag, B(FALSE)>> >>)}

e_token      == <<"$", "i", "n", "p", "u", "t", "s", ".", "t", "o", "k", "e", "n">>
e_code       == <<"$", "i", "n", "p", "u", "t", "s", ".", "c", "o", "d", "e">>
e_flag       == <<"$", "i", "n", "p", "u", "t", "s", ".", "f", "l", "a", "g">>
e_no         == <<"$", "i", "n", "p", "u", "t", "s", ".", "n", "o">>
e_status     == <<"$", "s", "t", "a", "t", "u", "s", "C", "o", "d", "e">>
e_status200  == <<"$", "s", "t", "a", "t", "u", "s", "C", "o", "d", "e", " ", "=", "=", " ", "2", "0", "0">>
e_badbase    == <<"$", "z", "z", "#", "/", "a">>
e_dollar     == <<"$">>
e_s1tok      == <<"$", "s", "t", "e", "p", "s", ".", "s", "1", ".", "o", "u", "t", "p", "u", "t", "s", ".", "t", "o", "k">>
e_tok        == <<"$", "t", "o", "k">>

\* models.Criterion
Crit(condition) == [condition |-> condition]

\* models.SuccessAction / models.FailureAction
Action(name, type_, step_id, criteria) ==
    [name |-> name, type_ |-> type_, step_id |-> step_id, criteria |-> criteria,
     retry_limit |-> Null]

RetryAction(retry_limit, criteria) ==
    [name |-> "again", type_ |-> "retry", step_id |-> Null, criteria |-> criteria,
     retry_limit |-> I(retry_limit)]

\* models.Step
Step(step_id, success_criteria, on_success, on_failure, outputs) ==
    [step_id |-> step_id, success_criteria |-> success_criteria,
     on_success |-> on_success, on_failure |-> on_failure, outputs |-> outputs]

\* outputs of the first step: absent, empty, an input captured, the status
\* captured, a name the response slot uses, an expression that raises after
\* one that does not, a lone $
FirstOutputs ==
    {Null, D(<<>>),
     D(<< <<k_tok, e_token>> >>),
     D(<< <<k_tok, e_status>> >>),
     D(<< <<k_statusCode, e_code>> >>),
     D(<< <<k_tok, e_token>>, <<k_e, e_badbase>> >>),
     D(<< <<k_tok, e_dollar>> >>)}

\* onSuccess of the first step
FirstOnSuccess ==
    {Null, L(<<>>),
     L(<<Action("a", "goto", S(k_s3), L(<<Crit(e_status200)>>))>>),
     L(<<Action("a", "goto", S(k_s3), L(<<Crit(e_flag)>>))>>),
     L(<<Action("a", "goto", S(k_s3), L(<<Crit(e_flag), Crit(e_badbase)>>))>>),
     L(<<Action("a", "goto", S(k_zz), L(<<>>))>>),
     L(<<Action("a", "end", Null, L(<<>>))>>),
     L(<<Action("a", "goto", S(k_s2), L(<<Crit(e_no)>>)), Action("b", "goto", S(k_s3), L(<<>>))>>),
     L(<<Action("a", "goto", S(k_s3), L(<<Crit(e_flag)>>)), Action("b", "goto", S(k_s2), L(<<>>))>>),
     L(<<Action("a", "goto", S(k_s3), Null)>>),
     L(<<Action("a", "goto", S(k_s1), L(<<>>))>>),
     L(<<Action("a", "notify", Null, L(<<>>)), Action("b", "goto", S(k_s3), L(<<>>))>>)}

\* successCriteria and onFailure of the first step
FirstFailure ==
    {<< L(<<>>), Null >>,
     << L(<<>>), L(<<RetryAction(1, L(<<>>))>>) >>,
     << L(<<Crit(e_no)>>), L(<<RetryAction(1, L(<<>>))>>) >>,
     << L(<<Crit(e_no)>>), L(<<RetryAction(0, L(<<>>)), Action("f", "goto", S(k_s3), L(<<>>))>>) >>}

FirstSteps ==
    {Step(k_s1, f[1], a, f[2], o) :
        f \in FirstFailure, a \in FirstOnSuccess, o \in FirstOutputs}

\* the second step reads what the first captured; it ends the run, goes on
\* to the third step or goes back to the first
SecondSteps ==
    {Step(k_s2, L(<<>>), a, Null, o) :
        a \in {Null, L(<<>>),
               L(<<Action("a", "goto", S(k_s3), L(<<>>))>>),
               L(<<Action("a", "goto", S(k_s1), L(<<>>))>>)},
        o \in {D(<<>>), D(<< <<k_got, e_s1tok>> >>), D(<< <<k_got, e_tok>> >>)}}

ThirdStep == Step(k_s3, L(<<>>), L(<<>>), Null, D(<<>>))

\* workflow_instance.steps
Workflows ==
    {<<>>}
    \cup {<<s1>> : s1 \in FirstSteps}
    \cup {<<s1, s2>> : s1 \in FirstSteps, s2 \in SecondSteps}
    \cup {<<s1, s2, ThirdStep>> : s1 \in FirstSteps, s2 \in SecondSteps}

----------------------------------------------------------------------------
(* run_workflow as a state machine: pending is the frame of the call       *)
(* (workflow, input_data, current_step, the position in the loop), with    *)
(* the step ids invoked so far and the outcome of the last transition kept *)
(* for the properties; result is Null once it returned, the exception when *)
(* one left it.                                                            *)

\* context = {"inputs": input_data, "steps": {}, "outputs": {}}
InitRun ==
    /\ \E w \in Workflows, d \in InputData :
        /\ context = D(<< <<k_inputs, d>>, <<k_steps, D(<<>>)>>,
                          <<k_outputs, D(<<>>)>> >>)
        /\ pending = [fn |-> "run_workflow", workflow |-> w, input_data |-> d,
                      current_step |-> FirstStep(w), pc |-> "while",
                      executed |-> <<>>, before |-> Null, last |-> Null]
    /\ result = NoResult

Running == pending.fn = "run_workflow" /\ result = NoResult

\* the frame and the result after execute_step returned r
Executed(r) ==
    /\ context' = r.context
    /\ pending' = [pending EXCEPT
                     !.executed = Append(@, pending.current_step.step_id),
                     !.before = context,
                     !.pc = IF r.exc = Null THEN "transition" ELSE "raised"]
    /\ result' = IF r.exc = Null THEN NoResult ELSE r.exc

\* context = execute_step(current_step, context, evaluator)
ExecuteStep ==
    /\ Running
    /\ pending.pc = "while"
    /\ pending.current_step # Null
    /\ Len(pending.executed) < MaxInvocations
    /\ Executed(execute_step(pending.current_step, context))

\* the frame and the result after transition_to_next_step returned t
Transitioned(t) ==
    /\ pending' = [pending EXCEPT
                     !.last = [from |-> pending.current_step,
                               fired |-> t.fired, next |-> t.next,
                               exc |-> t.exc],
                     !.current_step = t.next,
                     !.pc = IF t.exc = Null THEN "while" ELSE "raised"]
    /\ result' = IF t.exc = Null THEN NoResult ELSE t.exc

\* current_step = transition_to_next_step(current_step, context, ...)
TransitionToNextStep ==
    /\ Running
    /\ pending.pc = "transition"
    /\ Transitioned(transition_to_next_step(pending.current_step, context,
                                            pending.workflow))
    /\ UNCHANGED context

\* while current_step: is over; "Workflow execution completed."
WorkflowCompleted ==
    /\ Running
    /\ pending.pc = "while"
    /\ pending.current_step = Null
    /\ pending' = [pending EXCEPT !.pc = "completed"]
    /\ result' = Null
    /\ UNCHANGED context

NextRun == ExecuteStep \/ TransitionToNextStep \/ WorkflowCompleted

SpecRun == InitRun /\ [][NextRun]_vars

----------------------------------------------------------------------------
(* Properties of the runner *)

InRun == pending.fn = "run_workflow"

\* execute_step has returned for current_step and the transition is to come
StepExecuted == InRun /\ pending.pc = "transition"

\* transition_to_next_step has been called at least once; pending.last is
\* what the last call decided
HasTransitioned == InRun /\ pending.last # Null

\* the value recorded as statusCode
RecordedStatus(ctx) == DictGet(ctx, k_statusCode)

StatusInRange(ctx) ==
    /\ RecordedStatus(ctx).k = "int"
    /\ 200 <= RecordedStatus(ctx).n
    /\ RecordedStatus(ctx).n < 400

\* $steps.<stepId>.outputs.<name>
StepOutputPath(step_id, name) == <<k_steps, step_id, k_outputs, name>>

StepOutputExpr(step_id, name) == <<"$">> \o Join(StepOutputPath(step_id, name), <<".">>)

(* C11: after a step has executed, each of its outputs (name, expression)  *)
(* is stored under steps.<stepId>.outputs.<name>, where the expression     *)
(* $steps.<stepId>.outputs.<name> finds the captured value, and under no   *)
(* other key of the context.                                               *)
C11_OutputsUnderSteps ==
    StepExecuted =>
        \A i \in 1..Len(pending.current_step.outputs.pairs) :
            /\ PathExists(context, StepOutputPath(pending.current_step.step_id,
                                pending.current_step.outputs.pairs[i][1]))
            /\ __call__(context, StepOutputExpr(pending.current_step.step_id,
                                pending.current_step.outputs.pairs[i][1]))
               = __call__(context, pending.current_step.outputs.pairs[i][2])
            /\ (~HasKey(pending.before, pending.current_step.outputs.pairs[i][1])
                => ~HasKey(context, pending.current_step.outputs.pairs[i][1]))

\* the i-th success action of the step the last transition left
LastAction(i) == pending.last.from.on_success.items[i]

(* C12: a success action guarded by the simple comparison                  *)
(* `$statusCode == 200` fires exactly when the recorded statusCode is 200: *)
(* the goto is taken (the steps in between are not executed) when it       *)
(* holds, and is not taken otherwise.                                      *)
C12_ComparisonCriterionFires ==
    (/\ HasTransitioned
     /\ pending.last.from.on_success # Null
     /\ Len(pending.last.from.on_success.items) = 1
     /\ LastAction(1).type_ = "goto"
     /\ LastAction(1).criteria = L(<<Crit(e_status200)>>))
    => /\ pending.last.exc = Null
       /\ (pending.last.fired = 1) <=> (RecordedStatus(context) = I(200))
       /\ (pending.last.fired = 1) =>
            pending.last.next = StepsById(pending.workflow, LastAction(1).step_id)

(* C13: a step with an empty successCriteria list is successful iff the    *)
(* recorded statusCode is in 200..399: with a status outside that range    *)
(* the failure path is taken, so none of its success actions fires.        *)
C13_EmptyCriteriaStatusRange ==
    (/\ HasTransitioned
     /\ pending.last.from.success_criteria = L(<<>>)
     /\ ~StatusInRange(context))
    => pending.last.fired = 0

\* the number of invocations of a step in the run so far
Invocations(step_id) ==
    Cardinality({i \in 1..Len(pending.executed) : pending.executed[i] = step_id})

\* run_workflow is over: it returned or an exception left it
RunOver == InRun /\ result # NoResult

\* a step none of whose invocations can succeed: one of its success
\* criteria is the path $inputs.no, which no input_data resolves
AlwaysFails(step) ==
    \E c \in 1..Len(step.success_criteria.items) :
        step.success_criteria.items[c] = Crit(e_no)

(* C14: a step that fails on every invocation and whose only failure       *)
(* action is a retry with no criteria is invoked retryLimit + 1 times in   *)
(* all (retryLimit re-entries), after which the workflow ends.             *)
C14_RetryBudget ==
    (/\ RunOver
     /\ ~IsRaise(result)
     /\ pending.workflow # <<>>
     /\ AlwaysFails(pending.workflow[1])
     /\ pending.workflow[1].on_failure # Null
     /\ Len(pending.workflow[1].on_failure.items) = 1
     /\ pending.workflow[1].on_failure.items[1].type_ = "retry")
    => Invocations(pending.workflow[1].step_id)
            = pending.workflow[1].on_failure.items[1].retry_limit.n + 1

\* the last transition fired a goto to a stepId the workflow does not have
GotoUnknownFired ==
    /\ HasTransitioned
    /\ pending.last.fired > 0
    /\ LastAction(pending.last.fired).type_ = "goto"
    /\ StepsById(pending.workflow, LastAction(pending.last.fired).step_id) = Null

(* C15: when a fired goto names a stepId the workflow does not have, the   *)
(* run does not end as a normal completion does.                           *)
C15_UnknownGotoIsFatal ==
    (RunOver /\ GotoUnknownFired) => pending.pc # "completed"

\* the step after step_id in steps[] order, Null after the last
NextInOrder(steps, step_id) ==
    LET i == CHOOSE j \in 1..Len(steps) : steps[j].step_id = step_id
    IN  IF i < Len(steps) THEN steps[i + 1] ELSE Null

\* by the rules of the document the step the last transition left succeeded
LastSucceeded ==
    /\ pending.last.from.success_criteria = L(<<>>)
    /\ StatusInRange(context)

(* C16: when a step succeeds and none of its success actions fires (also   *)
(* when it has no onSuccess at all), the run goes on with the next step in *)
(* steps[] order, and ends only after the last step.                       *)
C16_FallThrough ==
    (HasTransitioned /\ LastSucceeded /\ pending.last.fired = 0)
    => /\ pending.last.exc = Null
       /\ pending.last.next
            = NextInOrder(pending.workflow, pending.last.from.step_id)

\* an action whose criteria are absent, empty, or all evaluate true
Matches(action, ctx) ==
    \/ action.criteria = Null
    \/ \A c \in 1..Len(action.criteria.items) :
            evaluate_criteria(action.criteria.items[c], ctx)

\* the first action of the list that matches, 0 when none does
FirstMatch(actions, ctx) ==
    IF \E i \in 1..Len(actions) : Matches(actions[i], ctx)
    THEN CHOOSE i \in 1..Len(actions) :
            /\ Matches(actions[i], ctx)
            /\ \A j \in 1..(i - 1) : ~Matches(actions[j], ctx)
    ELSE 0

(* C17: the success actions are scanned in list order and the one that     *)
(* fires is the first whose criteria all evaluate true, an action with     *)
(* empty or absent criteria matching always; none fires when none matches. *)
C17_FirstMatchingFires ==
    (HasTransitioned /\ pending.last.from.on_success # Null)
    => /\ pending.last.exc = Null
       /\ pending.last.fired
            = FirstMatch(pending.last.from.on_success.items, context)

\* the exception that left the run came out of execute_step
RaisedInExecuteStep ==
    /\ InRun
    /\ pending.pc = "raised"
    /\ (pending.last = Null \/ pending.last.exc = Null)

(* C18: an error raised while a step's output expressions or criteria are  *)
(* evaluated never leaves the run as an exception.                         *)
C18_EvaluationErrorsAreStepFailures ==
    ~(RaisedInExecuteStep /\ pending.current_step.outputs # Null)

e_response_body  == <<"$", "r", "e", "s", "p", "o", "n", "s", "e", ".", "b", "o", "d", "y">>
e_response_token == <<"$", "r", "e", "s", "p", "o", "n", "s", "e", ".", "b", "o", "d", "y", ".", "r", "e", "d", "i", "r", "e", "c", "t", "A", "u", "t", "h", "T", "o", "k", "e", "n">>

(* C19: after each step invocation $statusCode is the status of the        *)
(* response, $response.body its body and $response.body.<field> that      *)
(* field of the body.                                                      *)
C19_ResponseSlot ==
    (StepExecuted /\ pending.current_step.outputs = D(<<>>))
    => /\ __call__(context, e_status)
            = GetItem(simulate_response(pending.current_step, context), k_statusCode)
       /\ __call__(context, e_response_body)
            = GetItem(simulate_response(pending.current_step, context), k_body)
       /\ __call__(context, e_response_token)
            = GetItem(GetItem(simulate_response(pending.current_step, context), k_body),
                      <<"r", "e", "d", "i", "r", "e", "c", "t", "A", "u", "t", "h", "T", "o", "k", "e", "n">>)

----------------------------------------------------------------------------
(* Properties of the regex criterion *)

IsRegex == Evaluated /\ pending.shape.form = "regex"

\* the datum D the context expression of the criterion stands for
RegexDatum ==
    CASE pending.shape.at.o = "path"   -> ValueAt(context, pending.shape.at.path)
      [] pending.shape.at.o = "int"    -> I(pending.shape.at.n)
      [] pending.shape.at.o = "quoted" -> S(pending.shape.at.text)

(* C20: for a regex criterion the datum D is coerced to a string before    *)
(* matching, so that a number such as 200 is matched as "200" and no type  *)
(* error is raised; a null D is an evaluation error; the result is true    *)
(* iff the pattern matches at the start of that string.                    *)
C20_RegexCoerced ==
    IsRegex =>
        IF RegexDatum = Null THEN IsRaise(result)
        ELSE RegexDatum.k \in {"str", "int"}
             => result = _evaluate_regex(pending.condition, S(PyStr(RegexDatum)))

----------------------------------------------------------------------------
(* Properties of the xpath criterion and of the simple comparison *)

(* C21: a criterion of type xpath always surfaces the not-implemented      *)
(* error, whatever the condition and the context expression, an absent or  *)
(* unresolved context expression included: never a boolean, never another  *)
(* error.                                                                  *)
C21_XPathUnsupported ==
    (Evaluated /\ pending.shape.form = "xpath")
    => result = Raise("NotImplementedError")

\* the value the criterion evaluator resolves an operand of the evaluated
\* comparison to
Resolved(opd) == _resolve_context(context, TRUE, OperandText(opd))

\* a comparison with one of the six operators whose operands both resolve
ComparisonOfResolved ==
    /\ Evaluated
    /\ pending.shape.form = "cmp"
    /\ pending.shape.op \in ComparisonOperators
    /\ ~IsRaise(Resolved(pending.shape.left))
    /\ ~IsRaise(Resolved(pending.shape.right))

\* what the claim says of a comparison of the resolved values l and r
ByValueOrNumeric(op, l, r) ==
    CASE op = <<"=", "=">> -> result = B(PyEq(l, r))
      [] op = <<"!", "=">> -> result = B(~PyEq(l, r))
      [] OTHER ->
            IF IsNumber(l) /\ IsNumber(r)
            THEN result \in {B(TRUE), B(FALSE)}
            ELSE IsRaise(result)

(* C22: in a simple comparison == and != compare the two resolved operands *)
(* by value equality and never raise, while <, >, <=, >= applied to        *)
(* operands that are not both numbers yield an error rather than a         *)
(* boolean.                                                                *)
C22_OrderingNeedsNumbers ==
    ComparisonOfResolved
    => ByValueOrNumeric(pending.shape.op, Resolved(pending.shape.left),
                        Resolved(pending.shape.right))

\* the value of an operand when it is resolved as the expression evaluator
\* resolves it; the bare word null is null
ExpressionValue(opd) ==
    CASE opd.o = "path" -> __call__(context, OperandText(opd))
      [] opd.o = "word" -> Null
      [] OTHER          -> Resolved(opd)

\* the equality comparison of two such values
EqualityOf(op, l, r) ==
    IF IsRaise(l) \/ IsRaise(r) THEN IsRaise(result)
    ELSE result = B(IF op = <<"=", "=">> THEN PyEq(l, r) ELSE ~PyEq(l, r))

(* C23: in a simple comparison an operand that is neither quoted nor a     *)
(* numeric literal has the value the expression evaluator gives the same   *)
(* expression, so a missing path, or the bare word null, is null and the   *)
(* comparison with == or != returns the boolean for these values instead   *)
(* of raising.                                                             *)
C23_OperandsAsExpressions ==
    (/\ Evaluated
     /\ pending.shape.form = "cmp"
     /\ pending.shape.op \in {<<"=", "=">>, <<"!", "=">>})
    => EqualityOf(pending.shape.op, ExpressionValue(pending.shape.left),
                  ExpressionValue(pending.shape.right))

----------------------------------------------------------------------------
(* Properties of sequence segments *)

\* the path without its last segment, and the last segment
Front(path) == SubSeq(path, 1, Len(path) - 1)
Last(path) == path[Len(path)]

\* the evaluated expression is a dot path whose last segment is applied to a
\* sequence
SegmentOnSequence ==
    /\ Called
    /\ pending.shape.form = "dot"
    /\ Len(pending.shape.path) >= 2
    /\ PathExists(context, Front(pending.shape.path))
    /\ Lookup(context, Front(pending.shape.path)).k = "list"

\* the element a segment selects from a sequence, null when it selects none
Selected(items, seg) ==
    IF IsIndexSegment(seg) /\ DigitsVal(seg) < Len(items)
    THEN items[DigitsVal(seg) + 1]
    ELSE Null

(* C24: a dot-notation segment applied to a sequence selects an element    *)
(* only when it is a non-negative integer within range, and then the       *)
(* element at that position; every other segment, a negative integer such  *)
(* as -1 included, yields null.                                            *)
C24_SequenceSegment ==
    SegmentOnSequence
    => result = Selected(Lookup(context, Front(pending.shape.path)).items,
                         Last(pending.shape.path))

----------------------------------------------------------------------------
(* Properties of the comparison parser and of the operands *)

\* the three parts of a written comparison, trimmed
Parts(shape) ==
    [k |-> "parsed", left |-> OperandText(shape.left), operator |-> shape.op,
     right |-> OperandText(shape.right)]

Classified(opd) ==
    CASE opd.o = "quoted" -> S(opd.text)
      [] opd.o = "int"    -> I(opd.n)
      [] opd.o = "dec"    -> F(10 * opd.whole + opd.tenths, 10)
      [] OTHER            -> _resolve_path(context, OperandText(opd))

\* the comparison of two classified operands
ComparisonOf(op, l, r) ==
    IF IsRaise(l) THEN l ELSE IF IsRaise(r) THEN r ELSE Compare(op, l, r)

(* C26: each comparison operand is classified by its text alone: wrapped   *)
(* in single quotes it is the string between the quotes, exactly the outer *)
(* pair removed; matching ^\d+(\.\d+)?$ it is an integer without a decimal *)
(* point and a float with one; every other operand is resolved as a path.  *)
C26_OperandClassification ==
    (/\ Evaluated
     /\ pending.shape.form = "cmp"
     /\ pending.shape.op \in ComparisonOperators)
    => /\ Resolved(pending.shape.left) = Classified(pending.shape.left)
       /\ Resolved(pending.shape.right) = Classified(pending.shape.right)
       /\ result = ComparisonOf(pending.shape.op,
                                Classified(pending.shape.left),
                                Classified(pending.shape.right))

----------------------------------------------------------------------------
(* Termination of run_workflow *)

\* step i of the workflow has a goto success action to step j
GotoEdge(steps, i, j) ==
    /\ steps[i].on_success # Null
    /\ \E a \in 1..Len(steps[i].on_success.items) :
          /\ steps[i].on_success.items[a].type_ = "goto"
          /\ steps[i].on_success.items[a].step_id = S(steps[j].step_id)

\* step j is reachable from step i through at most n goto success actions
RECURSIVE GotoReach(_, _, _, _)
GotoReach(steps, i, j, n) ==
    /\ n >= 1
    /\ \/ GotoEdge(steps, i, j)
       \/ \E h \in 1..Len(steps) :
             GotoEdge(steps, i, h) /\ GotoReach(steps, h, j, n - 1)

\* no step is reachable from itself
NoGotoCycle(steps) ==
    \A i \in 1..Len(steps) : ~GotoReach(steps, i, i, Len(steps))

\* the run started at steps[0] and has invoked no step twice
EachStepAtMostOnce ==
    /\ Len(pending.executed) <= Len(pending.workflow)
    /\ \A i \in 1..Len(pending.workflow) :
          Invocations(pending.workflow[i].step_id) <= 1
    /\ pending.executed # <<>> =>
          pending.executed[1] = pending.workflow[1].step_id

\* a statement of the loop can be taken: the guards of ExecuteStep,
\* TransitionToNextStep and WorkflowCompleted
LoopCanStep ==
    /\ Running
    /\ \/ pending.pc = "transition"
       \/ pending.pc = "while" /\ pending.current_step = Null
       \/ pending.pc = "while" /\ Len(pending.executed) < MaxInvocations

(* C27: run_workflow starts at steps[0] and executes one step at a time;   *)
(* in a workflow where no step is reachable from itself through goto       *)
(* success actions the run terminates after executing each step at most    *)
(* once: at every point of the run no step has been executed twice, at     *)
(* most |steps| executions have been made, and the run is over or its      *)
(* next statement can be taken.                                            *)
C27_AcyclicRunTerminates ==
    (InRun /\ NoGotoCycle(pending.workflow))
    => /\ EachStepAtMostOnce
       /\ RunOver \/ LoopCanStep

\* a run through all three steps, in order, that returned
C27_Witness ==
    /\ RunOver
    /\ result = Null
    /\ NoGotoCycle(pending.workflow)
    /\ pending.executed = <<k_s1, k_s2, k_s3>>

----------------------------------------------------------------------------
(* The CLI (cli.py).  In the specifications of the CLI, context is what    *)
(* the commands share: pid_file, the text of oauth_server.pid (Null when   *)
(* the file does not exist), and processes, the servers spawned so far,    *)
(* processes[p] being the one with PID p.  A server is alive until it      *)
(* exits, which it can do at any time, by itself or after SIGTERM; a PID   *)
(* is not used again.                                                      *)

\* servers spawned in one behaviour
MaxProcesses == 3

\* read_pid(): int(pid_file.read_text()) if the file exists, else None
read_pid(os) ==
    IF os.pid_file # Null THEN I(DigitsVal(os.pid_file.s)) ELSE Null

\* write_pid(pid): pid_file.write_text(str(pid))
write_pid(os, pid) == [os EXCEPT !.pid_file = S(NatStr(pid))]

\* delete_pid_file(): unlink the file if it exists
delete_pid_file(os) == [os EXCEPT !.pid_file = Null]

\* subprocess.Popen([...uvicorn...]): a new server; its PID is the next one
Popen(os) ==
    [os EXCEPT !.processes = Append(@, [alive |-> TRUE, sigterm |-> FALSE])]

\* server_process.pid of the server Popen(os) started
NewPid(os) == Len(os.processes) + 1

\* a process with this PID exists
ProcessFound(os, pid) ==
    pid \in 1..Len(os.processes) /\ os.processes[pid].alive

\* os.kill(pid, signal.SIGTERM), for a PID that is found
os_kill(os, pid) == [os EXCEPT !.processes[pid].sigterm = TRUE]

\* a command's outcome: what it left and the lines it echoed
Outcome(os, echo) == [os |-> os, echo |-> echo]

start_NoCheck(os) ==
    Outcome(write_pid(Popen(os), NewPid(os)), <<"starting", "started">>)

\* start
start(os) ==
    IF bool(read_pid(os))
    THEN Outcome(os, <<"already running">>)
    ELSE Outcome(write_pid(Popen(os), NewPid(os)), <<"starting", "started">>)

stop_KeepPidFile(os) ==
    IF ~bool(read_pid(os))
    THEN Outcome(os, <<"not running">>)
    ELSE IF ProcessFound(os, read_pid(os).n)
    THEN Outcome(delete_pid_file(os_kill(os, read_pid(os).n)),
                 <<"stopping", "stopped">>)
    ELSE Outcome(os, <<"stopping", "not found">>)

\* stop: the pid file is deleted in the finally clause
stop(os) ==
    IF ~bool(read_pid(os))
    THEN Outcome(os, <<"not running">>)
    ELSE IF ProcessFound(os, read_pid(os).n)
    THEN Outcome(delete_pid_file(os_kill(os, read_pid(os).n)),
                 <<"stopping", "stopped">>)
    ELSE Outcome(delete_pid_file(os), <<"stopping", "not found">>)

\* the outcome of one command followed by the outcome of another
Then(first, second) == Outcome(second.os, first.echo \o second.echo)

\* restart: stop() and then start()
restart(os) ==
    Then(Outcome(os, <<"restarting">>), Then(stop(os), start(stop(os).os)))

\* status
status(os) ==
    IF bool(read_pid(os))
    THEN Outcome(os, <<"running">>)
    ELSE Outcome(os, <<"not running">>)

----------------------------------------------------------------------------
(* Commands given one after the other: pending is the last command, with   *)
(* what it found (before) and the command given before it; result is what  *)
(* it echoed.                                                              *)

InitCli ==
    /\ context = [pid_file |-> Null, processes |-> <<>>]
    /\ pending = [fn |-> "cli", command |-> "none", before |-> Null,
                  previous |-> "none"]
    /\ result = NoResult

\* the state after a command with this outcome
Commanded(command, outcome) ==
    /\ context' = outcome.os
    /\ pending' = [fn |-> "cli", command |-> command, before |-> context,
                   previous |-> pending.command]
    /\ result' = [k |-> "echo", lines |-> outcome.echo]

InCli == pending.fn = "cli"

\* a command may spawn a server
MaySpawn == Len(context.processes) < MaxProcesses

Start ==
    /\ InCli
    /\ MaySpawn \/ bool(read_pid(context))
    /\ Commanded("start", start(context))

Stop == InCli /\ Commanded("stop", stop(context))

Restart == InCli /\ MaySpawn /\ Commanded("restart", restart(context))

Status == InCli /\ Commanded("status", status(context))

\* a server exits
ProcessExits ==
    /\ pending.fn \in {"cli", "terminals"}
    /\ \E p \in 1..Len(context.processes) :
          /\ context.processes[p].alive
          /\ context' = [context EXCEPT !.processes[p].alive = FALSE]
    /\ UNCHANGED <<pending, result>>

NextCli == Start \/ Stop \/ Restart \/ Status \/ ProcessExits

SpecCli == InitCli /\ [][NextCli]_vars

----------------------------------------------------------------------------
(* Properties of the CLI commands given one after the other *)

\* the last command was this one
After(command) == InCli /\ pending.command = command

\* the servers the CLI spawned that satisfy a condition
Spawned(os) == 1..Len(os.processes)
NotSignalled(os) == {p \in Spawned(os) : ~os.processes[p].sigterm}
Serving(os) == {p \in Spawned(os) : os.processes[p].alive /\ ~os.processes[p].sigterm}

\* what start does: with a PID recorded it spawns nothing and leaves the pid
\* file as it is; with no pid file it spawns one server and records its PID
StartSpawnsOnce ==
    After("start")
    => IF pending.before.pid_file # Null
       THEN /\ Len(context.processes) = Len(pending.before.processes)
            /\ context.pid_file = pending.before.pid_file
       ELSE /\ Len(context.processes) = Len(pending.before.processes) + 1
            /\ context.pid_file = S(NatStr(Len(context.processes)))

(* C28, as stated: start spawns no process and leaves the pid file         *)
(* unchanged when the pid file records a PID, and spawns exactly one       *)
(* server and records its PID when no pid file exists; so after any        *)
(* series of start, stop, restart and status commands at most one server   *)
(* spawned by the CLI has not yet been sent SIGTERM.                       *)
C28_AtMostOneNotSignalled ==
    InCli => StartSpawnsOnce /\ Cardinality(NotSignalled(context)) <= 1

(* C28, amended: the same of start; after any series of commands at most   *)
(* one server spawned by the CLI is still running and has not been sent    *)
(* SIGTERM.                                                                *)
C28_AtMostOneServing ==
    InCli => StartSpawnsOnce /\ Cardinality(Serving(context)) <= 1

\* a start that spawned the second server after the first was stopped
C28_Witness ==
    /\ After("start")
    /\ pending.before.pid_file = Null
    /\ Len(context.processes) = 2
    /\ context.processes[1].sigterm
    /\ context.pid_file = S(<<"2">>)
    /\ Serving(context) = {2}

\* the pid file and the signals sent are as the command found them
NothingChanged ==
    /\ context.pid_file = pending.before.pid_file
    /\ Len(context.processes) = Len(pending.before.processes)
    /\ NotSignalled(context) = NotSignalled(pending.before)

(* C29: when a pid file exists, after stop the pid file no longer exists,  *)
(* whether the recorded process was signalled or was not found, so a       *)
(* status that follows reports the server as not running and a start that  *)
(* follows spawns a new server; when no pid file exists stop sends no      *)
(* signal and changes nothing.                                             *)
C29_StopRemovesPidFile ==
    /\ After("stop") =>
          IF pending.before.pid_file # Null
          THEN /\ context.pid_file = Null
               /\ result.lines \in {<<"stopping", "stopped">>,
                                    <<"stopping", "not found">>}
          ELSE NothingChanged /\ result.lines = <<"not running">>
    /\ (After("status") /\ pending.previous = "stop") =>
          result.lines = <<"not running">>
    /\ (After("start") /\ pending.previous = "stop") =>
          /\ Len(context.processes) = Len(pending.before.processes) + 1
          /\ result.lines = <<"starting", "started">>

\* a stop that did not find the recorded process and removed the pid file
C29_Witness ==
    /\ After("stop")
    /\ pending.before.pid_file = S(<<"1">>)
    /\ result.lines = <<"stopping", "not found">>
    /\ context.pid_file = Null

----------------------------------------------------------------------------
(* Commands given at the same time, from two terminals.  Each command runs *)
(* in a process of its own and takes its steps (read_pid, Popen,           *)
(* write_pid, os.kill, delete_pid_file) one at a time, those of the other  *)
(* command in between.  pending.terminals[t] is the command of terminal t: *)
(* the handler it is in (part), its position (pc) and its local pid;       *)
(* restart is stop followed by start.  A call of read_pid, write_pid or    *)
(* delete_pid_file is taken as one step.                                   *)

\* commands given at one terminal in one behaviour
MaxCommands == 2

Terminals == {1, 2}

Idle == [command |-> "none", part |-> "none", pc |-> "done", pid |-> Null,
         began_absent |-> FALSE, calls |-> 0]

InitTerminals ==
    /\ context = [pid_file |-> Null, processes |-> <<>>]
    /\ pending = [fn |-> "terminals", terminals |-> <<Idle, Idle>>]
    /\ result = NoResult

InTerminals == pending.fn = "terminals"

\* terminal t is at this position of this handler
At(t, part, pc) ==
    /\ InTerminals
    /\ pending.terminals[t].part = part
    /\ pending.terminals[t].pc = pc

\* the frame of terminal t becomes frame, and lines are echoed
Stepped(t, frame, lines) ==
    /\ pending' = [pending EXCEPT !.terminals[t] = frame]
    /\ result' = [k |-> "echo", terminal |-> t, lines |-> lines]

\* the frame when a handler returns: restart goes on with start
Returned(frame) ==
    IF frame.command = "restart" /\ frame.part = "stop"
    THEN [frame EXCEPT !.part = "start", !.pc = "read_pid"]
    ELSE [frame EXCEPT !.pc = "done"]

\* a command is given at terminal t
Invoke(t) ==
    /\ InTerminals
    /\ pending.terminals[t].pc = "done"
    /\ pending.terminals[t].calls < MaxCommands
    /\ \E command \in {"start", "stop", "restart", "status"} :
          Stepped(t, [command |-> command,
                      part |-> IF command = "restart" THEN "stop" ELSE command,
                      pc |-> "read_pid", pid |-> Null,
                      began_absent |-> context.pid_file = Null,
                      calls |-> pending.terminals[t].calls + 1],
                  IF command = "restart" THEN <<"restarting">> ELSE <<>>)
    /\ UNCHANGED context

\* start: pid = read_pid(); if pid: echo and return
StartReadPid(t) ==
    /\ At(t, "start", "read_pid")
    /\ IF bool(read_pid(context))
       THEN Stepped(t, Returned([pending.terminals[t] EXCEPT
                                   !.pid = read_pid(context)]),
                    <<"already running">>)
       ELSE Stepped(t, [pending.terminals[t] EXCEPT
                          !.pid = read_pid(context), !.pc = "Popen"],
                    <<"starting">>)
    /\ UNCHANGED context

\* start: server_process = subprocess.Popen(...)
StartPopen(t) ==
    /\ At(t, "start", "Popen")
    /\ MaySpawn
    /\ context' = Popen(context)
    /\ Stepped(t, [pending.terminals[t] EXCEPT
                     !.pid = I(NewPid(context)), !.pc = "write_pid"],
               <<>>)

\* start: write_pid(server_process.pid)
StartWritePid(t) ==
    /\ At(t, "start", "write_pid")
    /\ context' = write_pid(context, pending.terminals[t].pid.n)
    /\ Stepped(t, Returned(pending.terminals[t]), <<"started">>)

\* stop: pid = read_pid(); if not pid: echo and return
StopReadPid(t) ==
    /\ At(t, "stop", "read_pid")
    /\ IF bool(read_pid(context))
       THEN Stepped(t, [pending.terminals[t] EXCEPT
                          !.pid = read_pid(context), !.pc = "kill"],
                    <<"stopping">>)
       ELSE Stepped(t, Returned([pending.terminals[t] EXCEPT
                                   !.pid = read_pid(context)]),
                    <<"not running">>)
    /\ UNCHANGED context

\* stop: os.kill(pid, signal.SIGTERM), or ProcessLookupError
StopKill(t) ==
    /\ At(t, "stop", "kill")
    /\ IF ProcessFound(context, pending.terminals[t].pid.n)
       THEN /\ context' = os_kill(context, pending.terminals[t].pid.n)
            /\ Stepped(t, [pending.terminals[t] EXCEPT !.pc = "delete_pid_file"],
                       <<"stopped">>)
       ELSE /\ UNCHANGED context
            /\ Stepped(t, [pending.terminals[t] EXCEPT !.pc = "delete_pid_file"],
                       <<"not found">>)

\* stop: finally: delete_pid_file()
StopDeletePidFile(t) ==
    /\ At(t, "stop", "delete_pid_file")
    /\ context' = delete_pid_file(context)
    /\ Stepped(t, Returned(pending.terminals[t]), <<>>)

\* status: pid = read_pid() and the echo
StatusReadPid(t) ==
    /\ At(t, "status", "read_pid")
    /\ Stepped(t, Returned([pending.terminals[t] EXCEPT
                              !.pid = read_pid(context)]),
               IF bool(read_pid(context)) THEN <<"running">>
               ELSE <<"not running">>)
    /\ UNCHANGED context

NextTerminals ==
    \/ \E t \in Terminals : Invoke(t)
    \/ \E t \in Terminals : StartReadPid(t)
    \/ \E t \in Terminals : StartPopen(t)
    \/ \E t \in Terminals : StartWritePid(t)
    \/ \E t \in Terminals : StopReadPid(t)
    \/ \E t \in Terminals : StopKill(t)
    \/ \E t \in Terminals : StopDeletePidFile(t)
    \/ \E t \in Terminals : StatusReadPid(t)
    \/ ProcessExits

SpecTerminals == InitTerminals /\ [][NextTerminals]_vars

----------------------------------------------------------------------------
(* Properties of commands given at the same time *)

\* the only commands given are one start at each terminal, both given when
\* no pid file was present, and both have returned
TwoStartsReturned ==
    /\ InTerminals
    /\ \A t \in Terminals :
          /\ pending.terminals[t].command = "start"
          /\ pending.terminals[t].calls = 1
          /\ pending.terminals[t].began_absent
          /\ pending.terminals[t].pc = "done"

\* the servers running
Alive(os) == {p \in Spawned(os) : os.processes[p].alive}

(* C30: under any interleaving of two start commands running at the same   *)
(* time that begin with no pid file present, at most one server is         *)
(* spawned, and the pid file ends up recording the PID of a server that    *)
(* was spawned and that no other server runs beside.                       *)
C30_ConcurrentStartsSpawnOne ==
    TwoStartsReturned
    => /\ Len(context.processes) <= 1
       /\ bool(read_pid(context))
       /\ read_pid(context).n \in Spawned(context)
       /\ Alive(context) \subseteq {read_pid(context).n}

====
